---- MODULE Spec2Model ----
(***************************************************************************)
(* Logic-network storage engines (primary_network, gtg_network) and the    *)
(* GTECH netlist parser / network-backed reader of mockturtle, as state    *)
(* machines.                                                               *)
(*                                                                         *)
(* A network is a record                                                   *)
(*   nodes   : sequence of nodes, node index i is nodes[i + 1]             *)
(*   inputs  : sequence of node indices                                    *)
(*   outputs : sequence of signals                                         *)
(*   hash    : structural hash map, node key -> node index                 *)
(*   cache   : truth-table cache, sequence of normalised tables            *)
(*   events  : [on_add, invoked]: the registered on_add observers in the   *)
(*             order of registration, and <<observer, node index>> for     *)
(*             every invocation of an observer, in the order of invocation *)
(* A node is [children, h1, lit]: the child pointers, the word data[0].h1  *)
(* and data[1].h1 (function literal).  The 32-bit word data[0].h1 is kept  *)
(* as [dead, count]: its MSB and its low 31 bits.                          *)
(* A signal is [index, complement].                                        *)
(***************************************************************************)
EXTENDS Integers, Sequences, FiniteSets, TLC

VARIABLES variant, ctor, ntk, last, simS, simB, sched, stmts, order, report,
          prog, pos, phase, status, rd, diag, token, hooks, lx, heap

netVars == <<variant, ctor, ntk, last>>

simVars == <<simS, simB>>

schedVars == <<sched, stmts, order, report>>

parseVars == <<prog, pos, phase, status, rd, diag, token, hooks, lx>>

heapVars == <<heap>>

vars == <<netVars, simVars, schedVars, parseVars, heapVars>>

(***************************************************************************)
(* Bounds of the model.                                                    *)
(***************************************************************************)
MaxNodes == 3
MaxPos == 1
SimBits == 2
MaxCalls == 3
MaxStmts == 3
MaxRefs == 2
MaxObservers == 2
MaxOutputs == 2
MaxTokens == 4
MaxHandles == 2
MaxTravId == 1

\* tokens changed in the text of a module, and the length of the short inputs
MaxEdits == 1

MaxShort == 2

(***************************************************************************)
(* Helpers.                                                                *)
(***************************************************************************)
RECURSIVE Pow2(_)
Pow2(n) == IF n = 0 THEN 1 ELSE 2 * Pow2(n - 1)

Range(s) == {s[i] : i \in DOMAIN s}

Variants == {"primary", "gtg"}

(***************************************************************************)
(* Signals: index plus complement bit, data = 2 * index + complement.      *)
(***************************************************************************)
signal(index, complement) == [index |-> index, complement |-> complement]

signal_data(s) == 2 * s.index + s.complement

signal_from_data(d) == [index |-> d \div 2, complement |-> d % 2]

\* the low bit of data is set instead of flipped
signal_not_set(s) == signal_from_data(IF signal_data(s) % 2 = 0 THEN signal_data(s) + 1 ELSE signal_data(s))

\* signal::operator!  : data ^ 1
signal_not(s) == signal_from_data(IF signal_data(s) % 2 = 0 THEN signal_data(s) + 1 ELSE signal_data(s) - 1)

\* signal::operator^( bool )
signal_xor(s, c) == IF c THEN signal_not(s) ELSE s

(***************************************************************************)
(* Truth tables and the truth-table cache.  A table is [nvars, bits];      *)
(* the cache stores tables whose bit 0 is clear, literal 2 * slot for the  *)
(* stored table and 2 * slot + 1 for its complement.                       *)
(***************************************************************************)
tt(nvars, bits) == [nvars |-> nvars, bits |-> bits]

num_bits(t) == Pow2(t.nvars)

get_bit(t, i) == (t.bits \div Pow2(i)) % 2

tt_not(t) == tt(t.nvars, Pow2(num_bits(t)) - 1 - t.bits)

cache_find(cache, t) == {i \in DOMAIN cache : cache[i] = t}

cache_insert(cache, t) ==
  LET c == get_bit(t, 0)
      n == IF c = 1 THEN tt_not(t) ELSE t
      hit == cache_find(cache, n)
  IN IF hit # {}
       THEN [cache |-> cache, lit |-> 2 * ((CHOOSE i \in hit : TRUE) - 1) + c]
       ELSE [cache |-> Append(cache, n), lit |-> 2 * Len(cache) + c]

cache_lookup(cache, lit) ==
  LET t == cache[(lit \div 2) + 1]
  IN IF lit % 2 = 1 THEN tt_not(t) ELSE t

RECURSIVE cache_insert_all(_, _)
cache_insert_all(cache, ts) ==
  IF ts = <<>> THEN cache
  ELSE cache_insert_all(cache_insert(cache, Head(ts)).cache, Tail(ts))

\* the tables primary_network::_init reserves, in order
primary_init_tables ==
  << tt(0, 0), tt(1, 2), tt(2, 8), tt(2, 14), tt(2, 4), tt(2, 13), tt(2, 6),
     tt(3, 232), tt(3, 216), tt(3, 150) >>

\* the tables gtg_network::_init reserves, in order
gtg_init_tables ==
  primary_init_tables \o
  << tt(3, 127), tt(3, 1), tt(3, 21), tt(3, 87), tt(3, 149), tt(3, 215),
     tt(3, 169), tt(3, 65) >>

\* the tables init of the gtg_network of write_dot.hpp would reserve, in
\* order; neither of its constructors calls it
dot_gtg_init_tables ==
  << tt(0, 0), tt(1, 1), tt(2, 8), tt(2, 14), tt(2, 6), tt(3, 232), tt(3, 216),
     tt(3, 150) >>

\* the table of functions in the comment ahead of _init: the function each
\* native constructor is documented to build (mux21 is `same as ite`, and
\* nmux21 its complement)
documented_function ==
  [and |-> tt(2, 8), nand |-> tt(2, 7), or |-> tt(2, 14), nor |-> tt(2, 1),
   xor |-> tt(2, 6), xnor |-> tt(2, 9), maj |-> tt(3, 232), ite |-> tt(3, 216),
   xor3 |-> tt(3, 150), mux21 |-> tt(3, 216), nmux21 |-> tt(3, 39),
   nand3 |-> tt(3, 127), nor3 |-> tt(3, 1), aoi21 |-> tt(3, 21),
   oai21 |-> tt(3, 87), axi21 |-> tt(3, 149), xai21 |-> tt(3, 215),
   oxi21 |-> tt(3, 169), xoi21 |-> tt(3, 65)]

(***************************************************************************)
(* Storage.                                                                *)
(***************************************************************************)
node(children, h1, lit) == [children |-> children, h1 |-> h1, lit |-> lit]

zero_word == [dead |-> 0, count |-> 0]

null_ptr == signal(0, 0)

\* node 0 of a fresh storage: regular_node<2> has two zeroed child pointers,
\* max_fanin_node<3> an empty child vector
constant_node(v) ==
  node(IF v = "primary" THEN <<null_ptr, null_ptr>> ELSE <<>>, zero_word, 0)

node_key(n) == [lit |-> n.lit, children |-> n.children]

empty_hash == [k \in {} |-> 0]

hash_put(h, k, i) == [x \in DOMAIN h \cup {k} |-> IF x = k THEN i ELSE h[x]]

\* the constructors: a storage holding the constant node, then _init; the
\* constructors of the gtg_network of write_dot.hpp (the variant "gtg_dot")
\* have an empty body
new_network(v) ==
  [ nodes   |-> <<constant_node(v)>>,
    inputs  |-> <<>>,
    outputs |-> <<>>,
    hash    |-> empty_hash,
    events  |-> [on_add |-> <<>>, invoked |-> <<>>],
    trav_id |-> 0,
    cache   |-> IF v = "gtg_dot" THEN <<>>
                ELSE cache_insert_all(<<>>, IF v = "primary" THEN primary_init_tables
                                                              ELSE gtg_init_tables) ]

size(n) == Len(n.nodes)

num_pis(n) == Len(n.inputs)

num_pos(n) == Len(n.outputs)

node_at(n, i) == n.nodes[i + 1]

Signals(n) == {signal(i, c) : i \in 0 .. (size(n) - 1), c \in 0 .. 1}

\* ++ and -- on the 32-bit word data[0].h1: a carry out of the low 31 bits
\* goes into the MSB, a carry out of the MSB is lost
word_incr(w) ==
  IF w.count = 2147483647 THEN [dead |-> 1 - w.dead, count |-> 0]
  ELSE [dead |-> w.dead, count |-> w.count + 1]

word_decr(w) ==
  IF w.count = 0 THEN [dead |-> 1 - w.dead, count |-> 2147483647]
  ELSE [dead |-> w.dead, count |-> w.count - 1]

incr_h1(n, i) == [n EXCEPT !.nodes[i + 1].h1 = word_incr(@)]

RECURSIVE incr_children(_, _)
incr_children(n, cs) ==
  IF cs = <<>> THEN n ELSE incr_children(incr_h1(n, Head(cs).index), Tail(cs))

get_constant(value) == signal(0, IF value THEN 1 ELSE 0)

is_constant(i) == i = 0

is_ci(n, i) == node_at(n, i).lit = 1

is_pi(n, i) == node_at(n, i).lit = 1 /\ ~is_constant(i)

\* events().register_add_event( fn )
register_add_event(n, fn) == [n EXCEPT !.events.on_add = Append(@, fn)]

\* the observers are invoked last registered first
fire_on_add_reversed(n, index) ==
  LET fs == n.events.on_add
  IN [n EXCEPT !.events.invoked =
        @ \o [k \in DOMAIN fs |-> <<fs[Len(fs) + 1 - k], index>>]]

\* for ( auto const& fn : _events->on_add ) ( *fn )( index );
fire_on_add(n, index) ==
  LET fs == n.events.on_add
  IN [n EXCEPT !.events.invoked = @ \o [k \in DOMAIN fs |-> <<fs[k], index>>]]

\* ++_storage->trav_id, a 32-bit counter kept far below its width here
incr_trav_id(n) == [n EXCEPT !.trav_id = @ + 1]

\* ( h1 >> 31 ) & 1
is_dead(n, i) == node_at(n, i).h1.dead = 1

\* h1 & 0x7FFFFFFF
fanout_size(n, i) == node_at(n, i).h1.count

\* h1++ & 0x7FFFFFFF : the count before the increment
incr_fanout_size(n, i) == [ntk |-> incr_h1(n, i), res |-> fanout_size(n, i)]

\* --h1 & 0x7FFFFFFF : the count after the decrement
decr_fanout_size(n, i) ==
  LET m == [n EXCEPT !.nodes[i + 1].h1 = word_decr(@)]
  IN [ntk |-> m, res |-> fanout_size(m, i)]

(***************************************************************************)
(* primary_network                                                         *)
(***************************************************************************)
primary_create_node(n, children, literal) ==
  LET tmp == node(children, zero_word, literal)
      index == size(n)
      n1 == [n EXCEPT !.nodes = Append(@, tmp),
                      !.hash = hash_put(@, node_key(tmp), index)]
  IN [ntk |-> fire_on_add(incr_children(n1, children), index),
      res |-> signal(index, 0)]

primary_create_pi(n) ==
  LET index == size(n)
      p == signal_from_data(Len(n.inputs))
  IN [ntk |-> [n EXCEPT !.nodes = Append(@, node(<<p, p>>, zero_word, 1)),
                        !.inputs = Append(@, index)],
      res |-> signal(index, 0)]

\* create_and .. create_xnor: order the operands by node index, then allocate
primary_create_gate2(n, literal, a, b) ==
  IF a.index > b.index
    THEN primary_create_node(n, <<b, a>>, literal)
    ELSE primary_create_node(n, <<a, b>>, literal)

primary_create_and(n, a, b) == primary_create_gate2(n, 4, a, b)

primary_create_xor(n, a, b) == primary_create_gate2(n, 12, a, b)

\* the derived constructors of primary_network
primary_create_lt(n, a, b) == primary_create_and(n, signal_not(a), b)

primary_create_le(n, a, b) ==
  LET g == primary_create_and(n, a, signal_not(b))
  IN [ntk |-> g.ntk, res |-> signal_not(g.res)]

primary_create_maj(n, a, b, c) ==
  LET c1 == primary_create_xor(n, a, b)
      c2 == primary_create_xor(c1.ntk, a, c)
      c3 == primary_create_and(c2.ntk, c1.res, c2.res)
  IN primary_create_xor(c3.ntk, a, c3.res)

\* create_ite with the complement of the then-branch moved to the result
\* but not taken off the branch
primary_create_ite_kept(n, cond, f_then, f_else) ==
  LET swap == f_then.index < f_else.index
      t1 == IF swap THEN f_else ELSE f_then
      e1 == IF swap THEN f_then ELSE f_else
      c1 == IF swap THEN signal_not(cond) ELSE cond
      f_compl == t1.complement = 1
      e2 == IF f_compl THEN signal_not(e1) ELSE e1
      g1 == primary_create_and(n, signal_not(c1), e2)
      g2 == primary_create_and(g1.ntk, c1, t1)
      g3 == primary_create_and(g2.ntk, signal_not(g1.res), signal_not(g2.res))
  IN [ntk |-> g3.ntk, res |-> signal_xor(g3.res, ~f_compl)]

primary_create_ite(n, cond, f_then, f_else) ==
  LET swap == f_then.index < f_else.index
      t1 == IF swap THEN f_else ELSE f_then
      e1 == IF swap THEN f_then ELSE f_else
      c1 == IF swap THEN signal_not(cond) ELSE cond
      f_compl == t1.complement = 1
      t2 == IF f_compl THEN signal(t1.index, 0) ELSE t1
      e2 == IF f_compl THEN signal_not(e1) ELSE e1
      g1 == primary_create_and(n, signal_not(c1), e2)
      g2 == primary_create_and(g1.ntk, c1, t2)
      g3 == primary_create_and(g2.ntk, signal_not(g1.res), signal_not(g2.res))
  IN [ntk |-> g3.ntk, res |-> signal_xor(g3.res, ~f_compl)]

primary_create_xor3(n, a, b, c) ==
  LET g == primary_create_xor(n, a, b)
  IN primary_create_xor(g.ntk, g.res, c)

(***************************************************************************)
(* gtg_network                                                             *)
(***************************************************************************)
\* the new node is written over the last node of the storage
gtg_create_node_in_place(n, children, literal) ==
  LET index == size(n) - 1
      n1 == [n EXCEPT !.nodes[index + 1] = node(children, zero_word, literal)]
  IN [ntk |-> fire_on_add(incr_children(n1, children), index),
      res |-> signal(index, 0)]

gtg_create_node_lit(n, children, literal) ==
  LET index == size(n)
      n1 == [n EXCEPT !.nodes = Append(@, node(children, zero_word, literal))]
  IN [ntk |-> fire_on_add(incr_children(n1, children), index),
      res |-> signal(index, 0)]

gtg_create_pi(n) ==
  LET index == size(n)
  IN [ntk |-> [n EXCEPT !.nodes = Append(@, node(<<>>, zero_word, 1)),
                        !.inputs = Append(@, index)],
      res |-> signal(index, 0)]

\* create_node( children, function )
gtg_create_node(n, children, function) ==
  IF children = <<>>
    THEN [ntk |-> n, res |-> get_constant(function.bits # 0)]
    ELSE LET ins == cache_insert(n.cache, function)
         IN gtg_create_node_lit([n EXCEPT !.cache = ins.cache], children, ins.lit)

(***************************************************************************)
(* Operations shared by the variants.                                      *)
(***************************************************************************)
\* the new input is left out of the input list
create_pi_unlisted(v, n) ==
  LET r == IF v = "primary" THEN primary_create_pi(n) ELSE gtg_create_pi(n)
  IN [ntk |-> [r.ntk EXCEPT !.inputs = n.inputs], res |-> r.res]

create_pi(v, n) == IF v = "primary" THEN primary_create_pi(n) ELSE gtg_create_pi(n)

\* create_po without the reference count of the driven node
create_po_no_ref(n, f) ==
  [ntk |-> [n EXCEPT !.outputs = Append(@, f)], res |-> Len(n.outputs)]

\* the output is put at the front of the output list
create_po_front(n, f) ==
  [ntk |-> [incr_h1(n, f.index) EXCEPT !.outputs = <<f>> \o @],
   res |-> Len(n.outputs)]

create_po(n, f) ==
  [ntk |-> [incr_h1(n, f.index) EXCEPT !.outputs = Append(@, f)],
   res |-> Len(n.outputs)]

create_buf(a) == a

\* the complement bit is set instead of flipped
create_not_set(a) == signal(a.index, 1)

create_not(a) == signal_not(a)

\* literal passed to _create_node by each native constructor
gate2_literal ==
  [and |-> 4, nand |-> 5, or |-> 6, nor |-> 7, xor |-> 12, xnor |-> 13]

gate3_literal ==
  [maj |-> 14, ite |-> 16, xor3 |-> 18, mux21 |-> 16, nmux21 |-> 17,
   nand3 |-> 21, nor3 |-> 23, aoi21 |-> 25, oai21 |-> 27, axi21 |-> 29,
   xai21 |-> 31, oxi21 |-> 33, xoi21 |-> 35]

Gate2Ops == DOMAIN gate2_literal

Gate3Ops == DOMAIN gate3_literal

create_gate2(v, n, op, a, b) ==
  IF v = "primary"
    THEN primary_create_gate2(n, gate2_literal[op], a, b)
    ELSE gtg_create_node_lit(n, <<a, b>>, gate2_literal[op])

gtg_create_gate3(n, op, a, b, c) ==
  gtg_create_node_lit(n, <<a, b, c>>, gate3_literal[op])

\* clone_node( other, source, children ): the table of the source node is
\* given as `function`
clone_node(v, n, function, children) ==
  IF v = "primary"
    THEN LET ins == cache_insert(n.cache, function)
         IN primary_create_node([n EXCEPT !.cache = ins.cache], children, ins.lit)
    ELSE gtg_create_node(n, children, function)

\* _init on a storage that exists: the reserved tables are inserted again
\* and the literal of node 0 is set to 0
network_init(v, n) ==
  [n EXCEPT !.cache = cache_insert_all(@, IF v = "primary" THEN primary_init_tables
                                                            ELSE gtg_init_tables),
            !.nodes[1].lit = 0]

\* The storages that exist and the handles to them: handles[h] is the
\* place in `storages` of the storage the network object h points to.
no_heap == [storages |-> <<>>, handles |-> <<>>]

storage_of(hp, h) == hp.storages[hp.handles[h]]

\* the new network object points to the storage of the old one
clone_shared(v, hp, h) == [hp EXCEPT !.handles = Append(@, hp.handles[h])]

\* clone(): std::make_shared<storage>( *_storage ), handed to the
\* constructor that takes a storage, which makes new events and runs _init
clone(v, hp, h) ==
  LET copy == [storage_of(hp, h) EXCEPT !.events = [on_add |-> <<>>, invoked |-> <<>>]]
  IN [storages |-> Append(hp.storages, network_init(v, copy)),
      handles |-> Append(hp.handles, Len(hp.storages) + 1)]

\* the storage of network object h becomes n
heap_put(hp, h, n) == [hp EXCEPT !.storages[hp.handles[h]] = n]

\* the child slots foreach_fanin visits
fanins(n, i) ==
  IF i = 0 \/ is_ci(n, i) THEN <<>> ELSE node_at(n, i).children

\* foreach_fanin( n, fn ) with a callback that returns false on the signals
\* of `stop` and true on the others: the signals fn is called on, in order
RECURSIVE visit(_, _)
visit(cs, stop) ==
  IF cs = <<>> THEN <<>>
  ELSE IF Head(cs) \in stop THEN <<Head(cs)>>
  ELSE <<Head(cs)>> \o visit(Tail(cs), stop)

primary_foreach_fanin(n, i, stop) ==
  IF i = 0 \/ is_ci(n, i) THEN <<>>
  ELSE LET cs == node_at(n, i).children
       IN IF cs[1] \in stop THEN <<cs[1]>> ELSE <<cs[1], cs[2]>>

gtg_foreach_fanin(n, i, stop) ==
  IF i = 0 \/ is_ci(n, i) THEN <<>> ELSE visit(node_at(n, i).children, stop)

\* every child is visited whatever the callback returns
foreach_fanin_all(v, n, i, stop) ==
  IF i = 0 \/ is_ci(n, i) THEN <<>> ELSE node_at(n, i).children

foreach_fanin(v, n, i, stop) ==
  IF v = "primary" THEN primary_foreach_fanin(n, i, stop)
  ELSE gtg_foreach_fanin(n, i, stop)

(***************************************************************************)
(* Value simulation: compute( n, begin, end ) on one bit per fan-in and on *)
(* one vector of `w` bits per fan-in.  A vector is the number whose binary *)
(* digits are its bits.                                                    *)
(***************************************************************************)
vec_bit(x, i) == (x \div Pow2(i)) % 2

vec_not(w, x) == Pow2(w) - 1 - x

RECURSIVE shift_in(_, _)
\* index <<= 1; index ^= bit, over the fan-ins in order
shift_in(index, bs) ==
  IF bs = <<>> THEN index ELSE shift_in(2 * index + Head(bs), Tail(bs))

RECURSIVE pattern_of(_, _, _)
\* pattern |= get_bit( tts[j], i ) << j
pattern_of(tts, i, j) ==
  IF j > Len(tts) THEN 0
  ELSE vec_bit(tts[j], i) * Pow2(j - 1) + pattern_of(tts, i, j + 1)

RECURSIVE lookup_all(_, _, _, _)
\* one result bit per position i .. w - 1
lookup_all(gate_tt, tts, w, i) ==
  IF i >= w THEN 0
  ELSE get_bit(gate_tt, pattern_of(tts, i, 1)) * Pow2(i)
         + lookup_all(gate_tt, tts, w, i + 1)

node_function(n, g) == cache_lookup(n.cache, node_at(n, g).lit)

primary_compute_bit(n, g, values) ==
  LET cs == node_at(n, g).children
      bs == [i \in DOMAIN values |->
               IF cs[i].complement = 1 THEN values[i] ELSE 1 - values[i]]
  IN get_bit(node_function(n, g), shift_in(0, bs))

primary_compute_tt(n, g, w, values) ==
  LET cs == node_at(n, g).children
      tts == [i \in DOMAIN values |->
                IF cs[i].complement = 1 THEN vec_not(w, values[i]) ELSE values[i]]
  IN lookup_all(node_function(n, g), tts, w, 0)

gtg_compute_bit(n, g, values) ==
  get_bit(node_function(n, g), shift_in(0, values))

gtg_compute_tt(n, g, w, values) ==
  lookup_all(node_function(n, g), values, w, 0)

compute_bit(v, n, g, values) ==
  IF v = "primary" THEN primary_compute_bit(n, g, values)
  ELSE gtg_compute_bit(n, g, values)

compute_tt(v, n, g, w, values) ==
  IF v = "primary" THEN primary_compute_tt(n, g, w, values)
  ELSE gtg_compute_tt(n, g, w, values)

(***************************************************************************)
(* The scheduler of deferred calls (call_in_topological_order).  Its state *)
(* is [known, pending, log]: the names known, the calls held in the order  *)
(* they were registered, and the calls dispatched so far in the order of   *)
(* their dispatch.  A call is [deps, produces, payload].                   *)
(***************************************************************************)
deferred(deps, produces, payload) ==
  [deps |-> deps, produces |-> produces, payload |-> payload]

new_scheduler == [known |-> {}, pending |-> <<>>, log |-> <<>>]

declare_known(s, name) == [s EXCEPT !.known = @ \cup {name}]

RECURSIVE declare_all(_, _)
declare_all(s, names) ==
  IF names = <<>> THEN s ELSE declare_all(declare_known(s, Head(names)), Tail(names))

is_ready(s, c) == Range(c.deps) \subseteq s.known

\* run the call and mark what it produces known
dispatch(s, c) ==
  [s EXCEPT !.log = Append(@, c), !.known = @ \cup Range(c.produces)]

remove_at(q, i) == SubSeq(q, 1, i - 1) \o SubSeq(q, i + 1, Len(q))

\* a held call is never released
cascade_none(s) == s

RECURSIVE cascade(_)
\* dispatch the held calls that have become ready, the earliest registered
\* first, until none is ready
cascade(s) ==
  LET ready == {i \in DOMAIN s.pending : is_ready(s, s.pending[i])}
  IN IF ready = {} THEN s
     ELSE LET i == CHOOSE k \in ready : \A m \in ready : k <= m
          IN cascade(dispatch([s EXCEPT !.pending = remove_at(@, i)], s.pending[i]))

\* every call is held, whatever is known
call_deferred_hold(s, c) == [s EXCEPT !.pending = Append(@, c)]

call_deferred(s, c) ==
  IF is_ready(s, c)
    THEN cascade(dispatch(s, c))
    ELSE [s EXCEPT !.pending = Append(@, c)]

\* only the first missing dependency of the first held call
unresolved_first(s) ==
  IF s.pending = <<>> THEN {}
  ELSE {<<p, d>> : p \in Range(s.pending[1].produces),
                   d \in Range(s.pending[1].deps) \ s.known}

\* one entry per held call and missing dependency: the name the call
\* produces and the name it waits for
unresolved_dependencies(s) ==
  UNION {{<<p, d>> : p \in Range(s.pending[i].produces),
                     d \in Range(s.pending[i].deps) \ s.known}
           : i \in DOMAIN s.pending}

(***************************************************************************)
(* The network-backed reader (gtech_reader<Ntk>).  Its state is            *)
(* [ntk, signals, outputs, stderr]: the network ntk_, the map signals_     *)
(* from names to signals, the list outputs_ of output names, and the lines *)
(* the reader has printed to stderr.                                       *)
(***************************************************************************)
operand(name, neg) == [name |-> name, neg |-> neg]

map_put(m, k, v) == [x \in DOMAIN m \cup {k} |-> IF x = k THEN v ELSE m[x]]

ConstantNames == <<"0", "1", "1'b0", "1'b1", "1'h0", "1'h1">>

new_reader(v) ==
  [ ntk |-> new_network(v),
    signals |-> [x \in Range(ConstantNames) |->
                   get_constant(x \in {"1", "1'b1", "1'h1"})],
    outputs |-> <<>>,
    stderr |-> <<>> ]

\* a name not in the map enters it with the constant-true signal
touch_true(r, name) ==
  IF name \in DOMAIN r.signals THEN r
  ELSE [r EXCEPT !.signals = map_put(@, name, signal(0, 1))]

\* signals_[ name ] : a name not in the map enters it with the default signal
touch(r, name) ==
  IF name \in DOMAIN r.signals THEN r
  ELSE [r EXCEPT !.signals = map_put(@, name, signal(0, 0))]

\* if ( signals_.find( name ) == signals_.end() )
\*   fmt::print( stderr, "[w] undefined signal {} assigned 0\n", name );
warn_undefined(r, name) ==
  IF name \in DOMAIN r.signals THEN r
  ELSE [r EXCEPT !.stderr = Append(@, [level |-> "[w]", name |-> name])]

RECURSIVE on_inputs(_, _, _)
on_inputs(v, r, names) ==
  IF names = <<>> THEN r
  ELSE LET pi == create_pi(v, r.ntk)
       IN on_inputs(v, [r EXCEPT !.ntk = pi.ntk,
                                 !.signals = map_put(@, Head(names), pi.res)],
                    Tail(names))

on_outputs(r, names) == [r EXCEPT !.outputs = @ \o names]

\* on_latch_output binds lhs to a register output only if the network has
\* create_ri and create_ro; neither network class has them, and the body
\* is compiled away
on_latch_output(v, r, lhs) == r

on_assign(r, lhs, rhs) ==
  LET r1 == touch(warn_undefined(r, rhs.name), rhs.name)
      s == r1.signals[rhs.name]
  IN [r1 EXCEPT !.signals = map_put(@, lhs, IF rhs.neg THEN create_not(s) ELSE s)]

\* on_and .. on_xnor with the constructor of the network swapped for create_or
on_gate2_as_or(v, r, op, lhs, op1, op2) ==
  LET r0 == warn_undefined(warn_undefined(r, op1.name), op2.name)
      r1 == touch(touch(r0, op1.name), op2.name)
      a == r1.signals[op1.name]
      b == r1.signals[op2.name]
      g == create_gate2(v, r1.ntk, "or",
                        IF op1.neg THEN create_not(a) ELSE a,
                        IF op2.neg THEN create_not(b) ELSE b)
  IN [r1 EXCEPT !.ntk = g.ntk, !.signals = map_put(@, lhs, g.res)]

\* on_and, on_nand, on_or, on_nor, on_xor, on_xnor: op names the constructor
on_gate2(v, r, op, lhs, op1, op2) ==
  LET r0 == warn_undefined(warn_undefined(r, op1.name), op2.name)
      r1 == touch(touch(r0, op1.name), op2.name)
      a == r1.signals[op1.name]
      b == r1.signals[op2.name]
      g == create_gate2(v, r1.ntk, op,
                        IF op1.neg THEN create_not(a) ELSE a,
                        IF op2.neg THEN create_not(b) ELSE b)
  IN [r1 EXCEPT !.ntk = g.ntk, !.signals = map_put(@, lhs, g.res)]

RECURSIVE create_pos_reversed(_, _)
\* the outputs are made from the last declared name to the first
create_pos_reversed(r, names) ==
  IF names = <<>> THEN r
  ELSE LET o == names[Len(names)]
           r1 == touch(r, o)
           po == create_po(r1.ntk, r1.signals[o])
       IN create_pos_reversed([r1 EXCEPT !.ntk = po.ntk],
                              SubSeq(names, 1, Len(names) - 1))

RECURSIVE create_pos(_, _)
create_pos(r, names) ==
  IF names = <<>> THEN r
  ELSE LET r1 == touch(r, Head(names))
           po == create_po(r1.ntk, r1.signals[Head(names)])
       IN create_pos([r1 EXCEPT !.ntk = po.ntk], Tail(names))

\* the outputs are made twice over
on_endmodule_twice(r) == create_pos(create_pos(r, r.outputs), r.outputs)

on_endmodule(r) == create_pos(r, r.outputs)

\* the gate function the parser hands to the scheduler: the statement type
\* selects the reader callback
gate_type_ctor ==
  [and2 |-> "and", nand2 |-> "nand", or2 |-> "or", nor2 |-> "nor",
   xor2 |-> "xor", xnor2 |-> "xnor"]

\* the types the gate function of the parser has a branch for; on a call of
\* any other type it writes "unknown gate function" and aborts
GateFnTypes ==
  {"assign", "zero", "one", "not", "inv", "buf", "latch",
   "and2", "nand2", "or2", "nor2", "xor2", "xnor2",
   "maj3", "xor3", "nand3", "nor3", "mux21", "mux", "nmux21", "nmux",
   "aoi21", "oai21", "axi21", "xai21", "oxi21", "xoi21"}

\* on_not and on_inv: the output is bound to the complement of the operand
on_not(r, lhs, op1) ==
  LET r1 == touch(warn_undefined(r, op1.name), op1.name)
  IN [r1 EXCEPT !.signals = map_put(@, lhs, create_not(r1.signals[op1.name]))]

gate_fn(v, r, payload) ==
  IF payload.type = "assign"
    THEN on_assign(r, payload.lhs, payload.args[1])
    ELSE IF payload.type \in {"not", "inv"}
    THEN on_not(r, payload.lhs, payload.args[1])
    ELSE on_gate2(v, r, gate_type_ctor[payload.type], payload.lhs,
                  payload.args[1], payload.args[2])

\* the dispatched calls leave the reader as it was
run_dispatched_none(v, r, calls) == r

RECURSIVE run_dispatched(_, _, _)
\* the reader after the calls the scheduler dispatched, in dispatch order
run_dispatched(v, r, calls) ==
  IF calls = <<>> THEN r
  ELSE run_dispatched(v, gate_fn(v, r, Head(calls).payload), Tail(calls))

(***************************************************************************)
(* The GTECH parser (gtech_parser), one step per statement.  A module is   *)
(* the sequence `prog` of its statements after the header, each            *)
(* [kw, inst, words, expr]: the keyword, the instance name, the names      *)
(* (declared names, or the port words of a gate, output first) and the     *)
(* tokens right of `=` in an assignment.  `pos` is the statement the       *)
(* parser is at, `phase` the loop of parse_module it is in, `token` the    *)
(* token the loop looks at, `diag` the diagnostics reported in the order   *)
(* of their report, each [id, args], and `hooks` the reader callbacks      *)
(* invoked in the order of their invocation, each [name, ndiag] with the   *)
(* number of diagnostics reported before it.                               *)
(***************************************************************************)
statement(kw, inst, words, expr) ==
  [kw |-> kw, inst |-> inst, words |-> words, expr |-> expr]

names_of(st) == [i \in DOMAIN st.words |-> st.words[i].name]

\* the keywords the first loop of parse_module handles
FirstLoopKeywords ==
  {"input", "output", "output_latch", "wire", "init", "parameter", "zero",
   "one", "not", "inv", "buf", "$_FF_", "and2", "nand2", "or2", "nor2",
   "xor2", "xnor2", "maj3", "xor3", "nand3", "nor3", "mux21", "mux",
   "nmux21", "nmux", "aoi21", "oai21", "axi21", "xai21", "oxi21", "xoi21"}

\* modules[ module_name ] exists once parse_inputs or parse_outputs has run
ModuleName == "top"

new_parser == declare_all(new_scheduler, ConstantNames)

\* an optional `~` and a name at the head of a token list
leading_operand(tokens) ==
  IF Len(tokens) >= 2 /\ tokens[1] = "~"
    THEN [arg |-> operand(tokens[2], TRUE), rest |-> SubSeq(tokens, 3, Len(tokens))]
    ELSE [arg |-> operand(tokens[1], FALSE), rest |-> Tail(tokens)]

\* the forms parse_rhs_expression tells apart: a name, two names around one
\* of & | ^, or three names with two such operators between them, each name
\* with an optional `~`
match_rhs(tokens) ==
  IF tokens = <<>> THEN [form |-> "none", op |-> "", op2 |-> "", args |-> <<>>]
  ELSE LET a == leading_operand(tokens)
       IN IF a.rest = <<>>
            THEN [form |-> "immediate", op |-> "", op2 |-> "", args |-> <<a.arg>>]
            ELSE IF Len(a.rest) < 2
                   THEN [form |-> "none", op |-> "", op2 |-> "", args |-> <<>>]
            ELSE LET b == leading_operand(Tail(a.rest))
                 IN IF b.rest = <<>>
                      THEN [form |-> "binary", op |-> Head(a.rest), op2 |-> "",
                            args |-> <<a.arg, b.arg>>]
                      ELSE IF Len(b.rest) >= 2 /\ leading_operand(Tail(b.rest)).rest = <<>>
                             THEN [form |-> "ternary", op |-> Head(a.rest),
                                   op2 |-> Head(b.rest),
                                   args |-> <<a.arg, b.arg,
                                              leading_operand(Tail(b.rest)).arg>>]
                             ELSE [form |-> "none", op |-> "", op2 |-> "", args |-> <<>>]

gate_call(args, lhs, type) ==
  deferred([i \in DOMAIN args |-> args[i].name], <<lhs>>,
           [args |-> args, lhs |-> lhs, type |-> type])

binary_type == [a \in {"&", "|", "^"} |-> IF a = "&" THEN "and2" ELSE IF a = "|" THEN "or2" ELSE "xor2"]

parse_rhs_expression(sch, lhs, tokens) ==
  LET m == match_rhs(tokens)
  IN IF m.form = "immediate"
       THEN [ok |-> TRUE, sched |-> call_deferred(sch, gate_call(m.args, lhs, "assign"))]
       ELSE IF m.form = "binary" /\ m.op \in DOMAIN binary_type
              THEN [ok |-> TRUE,
                    sched |-> call_deferred(sch, gate_call(m.args, lhs, binary_type[m.op]))]
              ELSE IF m.form = "ternary" /\ m.op2 = m.op /\ m.op \in DOMAIN binary_type
                     THEN [ok |-> TRUE,
                           sched |-> call_deferred(sch,
                                       gate_call(m.args, lhs,
                                                 IF m.op = "&" THEN "and3"
                                                 ELSE IF m.op = "|" THEN "or3" ELSE "xor3"))]
                     ELSE [ok |-> FALSE, sched |-> sch]

\* set_gates_been_processed: the instance names of the gate statements the
\* parser has been through
gates_been_processed ==
  {prog[i].inst : i \in {j \in 1 .. (pos - 1) : prog[j].kw \in DOMAIN gate_type_ctor}}

\* the port words are the output and two operands, by position; a gate whose
\* instance name has been processed is passed over with lhs, op1 and op2
\* left as they were constructed, and the rest of the statement unread
parse_general_binate_expression(processed, st) ==
  IF st.inst \in processed
    THEN [ok |-> TRUE, skipped |-> TRUE, lhs |-> "",
          op1 |-> operand("", FALSE), op2 |-> operand("", FALSE)]
    ELSE IF Len(st.words) # 3
      THEN [ok |-> FALSE, skipped |-> FALSE, lhs |-> "",
            op1 |-> operand("", FALSE), op2 |-> operand("", FALSE)]
      ELSE [ok |-> TRUE, skipped |-> FALSE, lhs |-> st.words[1].name,
            op1 |-> st.words[2], op2 |-> st.words[3]]

\* parse_and2 .. parse_xnor2
parse_gate2(sch, processed, st) ==
  LET e == parse_general_binate_expression(processed, st)
  IN IF ~e.ok
       THEN [ok |-> FALSE, skipped |-> FALSE, lhs |-> e.lhs, sched |-> sch]
       ELSE [ok |-> TRUE, skipped |-> e.skipped, lhs |-> e.lhs,
             sched |-> call_deferred(sch, gate_call(<<e.op1, e.op2>>, e.lhs, st.kw))]

\* the calls dispatched between two states of the scheduler
dispatched_since(before, after) ==
  SubSeq(after.log, Len(before.log) + 1, Len(after.log))

\* diag->report( id ).add_argument( .. )
diagnostic(id, args) == [id |-> id, args |-> args]

diag_report(d, id, args) == Append(d, diagnostic(id, args))

\* the level diag_info gives the general diagnostics
diag_level ==
  [ERR_FILE_OPEN |-> "fatal", ERR_PARSE_LINE |-> "fatal",
   WRN_UNRESOLVED_DEPENDENCY |-> "warning", ERR_UNSUPPORTED_KEYWORD |-> "fatal"]

gate_diag_id ==
  [and2 |-> "ERR_GTECH_GATE_AND2", nand2 |-> "ERR_GTECH_GATE_NAND2",
   or2 |-> "ERR_GTECH_GATE_OR2", nor2 |-> "ERR_GTECH_GATE_NOR2",
   xor2 |-> "ERR_GTECH_GATE_XOR2", xnor2 |-> "ERR_GTECH_GATE_XNOR2"]

\* the reader callback a dispatched call invokes
gate_hook ==
  [assign |-> "on_assign", and2 |-> "on_and", nand2 |-> "on_nand",
   or2 |-> "on_or", nor2 |-> "on_nor", xor2 |-> "on_xor", xnor2 |-> "on_xnor",
   not |-> "on_not", inv |-> "on_inv"]

hook(name, d) == [name |-> name, ndiag |-> Len(d)]

hooks_of(calls, d) == [i \in DOMAIN calls |-> hook(gate_hook[calls[i].payload.type], d)]

\* only one of the elements of deps is reported
report_one(d, id, deps) ==
  IF deps = {} THEN d ELSE diag_report(d, id, CHOOSE x \in deps : TRUE)

RECURSIVE report_all(_, _, _)
\* one report per element of deps
report_all(d, id, deps) ==
  IF deps = {} THEN d
  ELSE LET r == CHOOSE x \in deps : TRUE
       IN report_all(diag_report(d, id, r), id, deps \ {r})

\* the token get_token yields at the head of statement i
token_at(p, i) == IF i <= Len(p) THEN p[i].kw ELSE "endmodule"

at_statement == pos <= Len(prog)

current == prog[pos]

Parsing(ph) == status = "parsing" /\ phase = ph

ParseInputs ==
  /\ Parsing("declarations") /\ token = "input"
  /\ rd' = on_inputs(variant, rd, names_of(current))
  /\ hooks' = Append(hooks, hook("on_inputs", diag))
  /\ sched' = declare_all(sched, names_of(current))
  /\ pos' = pos + 1
  /\ token' = token_at(prog, pos + 1)
  /\ UNCHANGED <<prog, phase, status, diag, report>>
  /\ UNCHANGED <<variant, ctor, ntk, last, simVars, stmts, order, lx, heapVars>>

ParseOutputs ==
  /\ Parsing("declarations") /\ token = "output"
  /\ rd' = on_outputs(rd, names_of(current))
  /\ hooks' = Append(hooks, hook("on_outputs", diag))
  /\ pos' = pos + 1
  /\ token' = token_at(prog, pos + 1)
  /\ UNCHANGED <<prog, phase, status, diag, sched, report>>
  /\ UNCHANGED <<variant, ctor, ntk, last, simVars, stmts, order, lx, heapVars>>

ParseWires ==
  /\ Parsing("declarations") /\ token = "wire"
  /\ hooks' = Append(hooks, hook("on_wires", diag))
  /\ pos' = pos + 1
  /\ token' = token_at(prog, pos + 1)
  /\ UNCHANGED <<prog, phase, status, diag, rd, sched, report>>
  /\ UNCHANGED <<variant, ctor, ntk, last, simVars, stmts, order, lx, heapVars>>

\* parse_output_latch: the callback is made for the first name, which is
\* then declared known
ParseOutputLatch ==
  /\ Parsing("declarations") /\ token = "output_latch"
  /\ rd' = on_latch_output(variant, rd, names_of(current)[1])
  /\ hooks' = Append(hooks, hook("on_latch_output", diag))
  /\ sched' = declare_known(sched, names_of(current)[1])
  /\ pos' = pos + 1
  /\ token' = token_at(prog, pos + 1)
  /\ UNCHANGED <<prog, phase, status, diag, report>>
  /\ UNCHANGED <<variant, ctor, ntk, last, simVars, stmts, order, lx, heapVars>>

ParseGate2 ==
  /\ Parsing("declarations") /\ token \in DOMAIN gate_type_ctor
  /\ LET p == parse_gate2(sched, gates_been_processed, current)
         calls == dispatched_since(sched, p.sched)
     IN IF p.ok
          THEN /\ sched' = p.sched
               /\ rd' = run_dispatched(variant, rd, calls)
               /\ hooks' = hooks \o hooks_of(calls, diag)
               /\ IF p.skipped
                    THEN pos' = pos /\ token' = "("
                    ELSE pos' = pos + 1 /\ token' = token_at(prog, pos + 1)
               /\ UNCHANGED <<status, diag>>
          ELSE /\ status' = "failed"
               /\ diag' = diag_report(diag_report(diag, gate_diag_id[token], <<p.lhs>>),
                                      gate_diag_id[token], <<>>)
               /\ UNCHANGED <<sched, rd, pos, token, hooks>>
  /\ UNCHANGED <<prog, phase, report>>
  /\ UNCHANGED <<variant, ctor, ntk, last, simVars, stmts, order, lx, heapVars>>

\* the instance names of the gates of one input the parser has been through
unate_processed ==
  {prog[i].inst : i \in {j \in 1 .. (pos - 1) : prog[j].kw \in {"not", "inv"}}}

\* the port words are the output and the operand, by position; a gate whose
\* instance name has been processed is passed over
parse_general_unate_expression(processed, st) ==
  IF st.inst \in processed
    THEN [ok |-> TRUE, skipped |-> TRUE, lhs |-> "", op1 |-> operand("", FALSE)]
    ELSE IF Len(st.words) # 2
      THEN [ok |-> FALSE, skipped |-> FALSE, lhs |-> "", op1 |-> operand("", FALSE)]
      ELSE [ok |-> TRUE, skipped |-> FALSE, lhs |-> st.words[1].name, op1 |-> st.words[2]]

\* what parse_not and parse_inv do once the keyword is theirs; `entered`
\* tells that the function went past the test of the keyword
parse_unate(sch, processed, st, type) ==
  LET e == parse_general_unate_expression(processed, st)
  IN IF ~e.ok
       THEN [ok |-> FALSE, entered |-> TRUE, skipped |-> FALSE, lhs |-> e.lhs, sched |-> sch]
       ELSE [ok |-> TRUE, entered |-> TRUE, skipped |-> e.skipped, lhs |-> e.lhs,
             sched |-> call_deferred(sch, gate_call(<<e.op1>>, e.lhs, type))]

parse_not(sch, processed, tk, st) ==
  IF tk # "not"
    THEN [ok |-> FALSE, entered |-> FALSE, skipped |-> FALSE, lhs |-> "", sched |-> sch]
    ELSE parse_unate(sch, processed, st, "not")

parse_inv(sch, processed, tk, st) ==
  IF tk # "inv"
    THEN [ok |-> FALSE, entered |-> FALSE, skipped |-> FALSE, lhs |-> "", sched |-> sch]
    ELSE parse_unate(sch, processed, st, "inv")

\* a branch of the first loop of parse_module on the result p of the
\* statement parser: inner is reported by the statement parser with the
\* output name, outer by the loop
UnateStep(p, inner, outer) ==
  /\ LET calls == dispatched_since(sched, p.sched)
     IN IF p.ok
          THEN /\ sched' = p.sched
               /\ rd' = run_dispatched(variant, rd, calls)
               /\ hooks' = hooks \o hooks_of(calls, diag)
               /\ IF p.skipped
                    THEN pos' = pos /\ token' = "("
                    ELSE pos' = pos + 1 /\ token' = token_at(prog, pos + 1)
               /\ UNCHANGED <<status, diag>>
          ELSE /\ status' = "failed"
               /\ diag' = diag_report(IF p.entered
                                        THEN diag_report(diag, inner, <<p.lhs>>)
                                        ELSE diag,
                                      outer, <<>>)
               /\ UNCHANGED <<sched, rd, pos, token, hooks>>
  /\ UNCHANGED <<prog, phase, report>>
  /\ UNCHANGED <<variant, ctor, ntk, last, simVars, stmts, order, lx, heapVars>>

ParseNot ==
  /\ Parsing("declarations") /\ token = "not"
  /\ UnateStep(parse_not(sched, unate_processed, token, current),
               "ERR_GTECH_GATE_NOT", "ERR_GTECH_GATE_NOT")

ParseInv ==
  /\ Parsing("declarations") /\ token = "inv"
  /\ UnateStep(parse_inv(sched, unate_processed, token, current),
               "ERR_GTECH_GATE_INV", "ERR_GTECH_GATE_NOT")

\* the older parser hands the keyword inv to parse_not
ParseInvOlder ==
  /\ Parsing("declarations") /\ token = "inv"
  /\ UnateStep(parse_not(sched, unate_processed, token, current),
               "ERR_GTECH_GATE_NOT", "ERR_GTECH_GATE_NOT")

\* the first loop ends at the first token that is none of its keywords
LeaveDeclarations ==
  /\ Parsing("declarations")
  /\ token \notin FirstLoopKeywords
  /\ phase' = "assignments"
  /\ UNCHANGED <<prog, pos, status, diag, rd, sched, report, token, hooks>>
  /\ UNCHANGED <<variant, ctor, ntk, last, simVars, stmts, order, lx, heapVars>>

ParseAssign ==
  /\ Parsing("assignments") /\ token = "assign"
  /\ LET p == parse_rhs_expression(sched, current.words[1].name, current.expr)
         calls == dispatched_since(sched, p.sched)
     IN IF p.ok
          THEN /\ sched' = p.sched
               /\ rd' = run_dispatched(variant, rd, calls)
               /\ hooks' = hooks \o hooks_of(calls, diag)
               /\ pos' = pos + 1
               /\ token' = token_at(prog, pos + 1)
               /\ UNCHANGED <<status, diag>>
          ELSE /\ status' = "failed"
               /\ diag' = diag_report(diag_report(diag, "ERR_GTECH_ASSIGNMENT_RHS",
                                                  <<current.words[1].name>>),
                                      "ERR_GTECH_ASSIGNMENT", <<>>)
               /\ UNCHANGED <<sched, rd, pos, token, hooks>>
  /\ UNCHANGED <<prog, phase, report>>
  /\ UNCHANGED <<variant, ctor, ntk, last, simVars, stmts, order, lx, heapVars>>

\* in the second loop every statement that is not an assignment is taken as
\* the instantiation of a module, which has to be a module parsed before
ParseModuleInstantiation ==
  /\ Parsing("assignments") /\ token \notin {"assign", "endmodule"}
  /\ token # ModuleName
  /\ status' = "failed"
  /\ diag' = diag_report(diag_report(diag, "ERR_GTECH_MODULE_INSTANTIATION_UNDECLARED_MODULE",
                                     <<token>>),
                         "ERR_GTECH_MODULE_INSTANTIATION_STATEMENT", <<>>)
  /\ UNCHANGED <<prog, pos, phase, rd, sched, report, token, hooks>>
  /\ UNCHANGED <<variant, ctor, ntk, last, simVars, stmts, order, lx, heapVars>>

\* endmodule: the check for dangling objects, then on_endmodule
ParseEndModule ==
  /\ Parsing("assignments") /\ token = "endmodule"
  /\ LET deps == unresolved_dependencies(sched)
         d == report_all(diag, "WRN_UNRESOLVED_DEPENDENCY", deps)
     IN /\ report' = [done |-> TRUE, deps |-> deps]
        /\ diag' = d
        /\ IF deps # {}
             THEN status' = "failed" /\ UNCHANGED <<rd, hooks>>
             ELSE /\ status' = "ok"
                  /\ rd' = on_endmodule(rd)
                  /\ hooks' = Append(hooks, hook("on_endmodule", d))
  /\ UNCHANGED <<prog, pos, phase, sched, token>>
  /\ UNCHANGED <<variant, ctor, ntk, last, simVars, stmts, order, lx, heapVars>>

(***************************************************************************)
(* The token level of the parser.  Its state is [tok, tokens, token,       *)
(* valid, ..]: the tokens the tokenizer has still to deliver, the          *)
(* lookahead queue, the members token and valid of the parser, and, for    *)
(* the functions that read a whole module, the members module_name,        *)
(* modules (its keys, with the inputs and outputs of the one module there  *)
(* can be) and set_gates_been_processed, the locals of the function in     *)
(* progress, and the count of the statements read.                         *)
(***************************************************************************)
lexer(tok, tokens, tk, valid) ==
  [tok |-> tok, tokens |-> tokens, token |-> tk, valid |-> valid,
   module_name |-> "", modules |-> {}, inputs |-> <<>>, outputs |-> <<>>,
   processed |-> {}, decl |-> "", names |-> <<>>, depth |-> 0, line |-> <<>>,
   lhs |-> "", args |-> <<>>, success |-> TRUE, statements |-> 0]

no_lexer == lexer(<<>>, <<>>, "", FALSE)

\* tok.get_token_internal( token ): the next token, or `invalid` at the end
\* of the input, where token is left as it was; in comment mode what is left
\* of the line comes as one token with the code `comment`, and that, or the
\* end of the input, ends the comment mode
get_token_internal(tok, tk, comment_mode) ==
  IF tok = <<>> THEN [code |-> "invalid", token |-> tk, tok |-> tok]
  ELSE [code |-> IF comment_mode THEN "comment" ELSE "valid",
        token |-> Head(tok), tok |-> Tail(tok)]

RECURSIVE read_token(_, _, _)
\* the do .. while of get_token when the queue is empty: a valid // sets the
\* comment mode, and empty tokens, comments and what is read in comment
\* mode are read over
read_token(tok, tk, comment_mode) ==
  LET r == get_token_internal(tok, tk, comment_mode)
      set_comment_mode == r.token = "//" /\ r.code = "valid"
  IN IF (r.token = "" /\ r.code = "valid") \/ set_comment_mode \/ r.code = "comment"
       THEN read_token(r.tok, r.token, set_comment_mode)
       ELSE r

\* get_token always reads from the tokenizer
get_token_fresh(l) ==
  LET r == read_token(l.tok, l.token, FALSE)
  IN [lex |-> [l EXCEPT !.tok = r.tok, !.token = r.token],
      ret |-> r.code = "valid"]

\* get_token reads the next token of the tokenizer and leaves it there
get_token_peek(l) ==
  IF l.tokens = <<>>
    THEN LET r == read_token(l.tok, l.token, FALSE)
         IN [lex |-> [l EXCEPT !.token = r.token], ret |-> r.code = "valid"]
    ELSE [lex |-> [l EXCEPT !.token = Head(l.tokens), !.tokens = Tail(@)],
          ret |-> TRUE]

\* get_token( token )
get_token(l) ==
  IF l.tokens = <<>>
    THEN LET r == read_token(l.tok, l.token, FALSE)
         IN [lex |-> [l EXCEPT !.tok = r.tok, !.token = r.token],
             ret |-> r.code = "valid"]
    ELSE [lex |-> [l EXCEPT !.token = Head(l.tokens), !.tokens = Tail(@)],
          ret |-> TRUE]

push_token(l, t) == [l EXCEPT !.tokens = Append(@, t)]

\* valid = get_token( token ); the members are taken once, as a value, and
\* the result is made from that value
next_token(l) ==
  CHOOSE n \in {[g.lex EXCEPT !.valid = g.ret] : g \in {get_token(v) : v \in {l}}} : TRUE

parse_signal_name(l) ==
  LET l1 == next_token(l)
      name == l1.token
  IN IF ~l1.valid \/ l1.token = "[" THEN [lex |-> l1, ret |-> FALSE]
     ELSE LET l2 == next_token(l1)
          IN IF l2.token = "["
               THEN LET l3 == next_token(l2)
                        size_ == l3.token
                    IN IF ~l3.valid THEN [lex |-> l3, ret |-> FALSE]
                       ELSE LET l4 == next_token(l3)
                            IN IF ~l4.valid /\ l4.token # "]"
                                 THEN [lex |-> l4, ret |-> FALSE]
                                 ELSE [lex |-> [l4 EXCEPT !.token = name \o "[" \o size_ \o "]"],
                                       ret |-> TRUE]
               ELSE [lex |-> [push_token(l2, l2.token) EXCEPT !.token = name],
                     ret |-> TRUE]

(***************************************************************************)
(* Network construction driven through the public interface.  Each run     *)
(* builds its gates with one constructor, `ctor`, chosen at the start;     *)
(* `last` records the most recent call: its name, arguments, result and    *)
(* the node count before it.                                               *)
(***************************************************************************)
call(op, args, res, size0) == [op |-> op, args |-> args, res |-> res, size0 |-> size0]

\* a result that is a number is kept as [value |-> number]
number(x) == [value |-> x]

no_call == call("none", <<>>, number(0), 0)

\* tables a driver hands to create_node: a & ~b and NAND, the second one
\* stored complemented by the cache
NodeTables == {tt(2, 2), tt(2, 7)}

\* the source gates clone_node copies from another network of the same class
CloneSources(v) == IF v = "gtg" THEN {"and", "xor", "maj"} ELSE {"and", "xor"}

source_function(v, op) ==
  cache_lookup(new_network(v).cache,
               IF op \in Gate2Ops THEN gate2_literal[op] ELSE gate3_literal[op])

Constructors(v) ==
  IF v = "gtg"
    THEN Gate2Ops \cup Gate3Ops \cup {"create_node", "clone_node"}
    ELSE Gate2Ops \cup {"clone_node"}

\* operands of a two-input gate: any two signals; of a three-input gate: any
\* signal and two uncomplemented ones
Plain(n) == {f \in Signals(n) : f.complement = 0}

Children(n, k) ==
  IF k = 2
    THEN {<<a, b>> : a \in Signals(n), b \in Signals(n)}
    ELSE {<<a, b, c>> : a \in Signals(n), b \in Plain(n), c \in Plain(n)}

no_sim == [values |-> <<>>, out |-> 0]

SimIdle == simS = no_sim /\ simB = no_sim

no_report == [done |-> FALSE, deps |-> {}]

SchedIdle ==
  /\ sched = new_scheduler
  /\ stmts = {}
  /\ order = <<>>
  /\ report = no_report

no_reader == [ntk |-> <<>>, signals |-> <<>>, outputs |-> <<>>, stderr |-> <<>>]

ParseIdle ==
  /\ prog = <<>>
  /\ pos = 0
  /\ phase = "none"
  /\ status = "none"
  /\ rd = no_reader
  /\ diag = <<>>
  /\ token = ""
  /\ hooks = <<>>
  /\ lx = no_lexer
  /\ heap = no_heap

NetInit ==
  /\ variant \in Variants
  /\ ctor \in Constructors(variant)
  /\ ntk = new_network(variant)
  /\ last = no_call
  /\ SimIdle
  /\ SchedIdle
  /\ ParseIdle

NetCreatePi ==
  /\ size(ntk) < MaxNodes
  /\ LET r == create_pi(variant, ntk)
     IN /\ ntk' = r.ntk
        /\ last' = call("create_pi", <<>>, r.res, size(ntk))
  /\ UNCHANGED <<variant, ctor, simVars, schedVars, parseVars, heapVars>>

NetCreatePo ==
  /\ num_pos(ntk) < MaxPos
  /\ \E f \in Signals(ntk) :
       LET r == create_po(ntk, f)
       IN /\ ntk' = r.ntk
          /\ last' = call("create_po", <<f>>, number(r.res), size(ntk))
  /\ UNCHANGED <<variant, ctor, simVars, schedVars, parseVars, heapVars>>

NetCreateGate2 ==
  /\ ctor \in Gate2Ops
  /\ size(ntk) < MaxNodes
  /\ \E cs \in Children(ntk, 2) :
       LET r == create_gate2(variant, ntk, ctor, cs[1], cs[2])
       IN /\ ntk' = r.ntk
          /\ last' = call(ctor, cs, r.res, size(ntk))
  /\ UNCHANGED <<variant, ctor, simVars, schedVars, parseVars, heapVars>>

NetCreateGate3 ==
  /\ ctor \in Gate3Ops
  /\ size(ntk) < MaxNodes
  /\ \E cs \in Children(ntk, 3) :
       LET r == gtg_create_gate3(ntk, ctor, cs[1], cs[2], cs[3])
       IN /\ ntk' = r.ntk
          /\ last' = call(ctor, cs, r.res, size(ntk))
  /\ UNCHANGED <<variant, ctor, simVars, schedVars, parseVars, heapVars>>

NetCreateNode ==
  /\ ctor = "create_node"
  /\ size(ntk) < MaxNodes
  /\ \E f \in NodeTables :
       \E cs \in Children(ntk, f.nvars) :
         LET r == gtg_create_node(ntk, cs, f)
         IN /\ ntk' = r.ntk
            /\ last' = call("create_node", <<cs, f>>, r.res, size(ntk))
  /\ UNCHANGED <<variant, ctor, simVars, schedVars, parseVars, heapVars>>

NetCloneNode ==
  /\ ctor = "clone_node"
  /\ size(ntk) < MaxNodes
  /\ \E op \in CloneSources(variant) :
       LET f == source_function(variant, op)
       IN \E cs \in Children(ntk, f.nvars) :
            LET r == clone_node(variant, ntk, f, cs)
            IN /\ ntk' = r.ntk
               /\ last' = call("clone_node", <<cs, f>>, r.res, size(ntk))
  /\ UNCHANGED <<variant, ctor, simVars, schedVars, parseVars, heapVars>>

NetNext ==
  \/ NetCreatePi
  \/ NetCreatePo
  \/ NetCreateGate2
  \/ NetCreateGate3
  \/ NetCreateNode
  \/ NetCloneNode

SpecNet == NetInit /\ [][NetNext]_vars

(***************************************************************************)
(* Reference counts driven through incr_fanout_size and decr_fanout_size,  *)
(* on a network of inputs and AND gates.                                   *)
(***************************************************************************)
RefInit == NetInit /\ ctor = "and"

RefIncr ==
  /\ \E i \in 0 .. (size(ntk) - 1) :
       /\ fanout_size(ntk, i) < MaxRefs
       /\ LET r == incr_fanout_size(ntk, i)
          IN /\ ntk' = r.ntk
             /\ last' = call("incr_fanout_size", <<number(i)>>, number(r.res), size(ntk))
  /\ UNCHANGED <<variant, ctor, simVars, schedVars, parseVars, heapVars>>

RefDecr ==
  /\ \E i \in 0 .. (size(ntk) - 1) :
       /\ fanout_size(ntk, i) <= MaxRefs
       /\ LET r == decr_fanout_size(ntk, i)
          IN /\ ntk' = r.ntk
             /\ last' = call("decr_fanout_size", <<number(i)>>, number(r.res), size(ntk))
  /\ UNCHANGED <<variant, ctor, simVars, schedVars, parseVars, heapVars>>

RefNext ==
  \/ NetCreatePi
  \/ NetCreateGate2
  \/ RefIncr
  \/ RefDecr

SpecRef == RefInit /\ [][RefNext]_vars

(***************************************************************************)
(* Inputs, outputs and AND gates, with up to MaxOutputs outputs.           *)
(***************************************************************************)
IoInit == NetInit /\ ctor = "and"

IoCreatePo ==
  /\ num_pos(ntk) < MaxOutputs
  /\ \E f \in Signals(ntk) :
       LET r == create_po(ntk, f)
       IN /\ ntk' = r.ntk
          /\ last' = call("create_po", <<f>>, number(r.res), size(ntk))
  /\ UNCHANGED <<variant, ctor, simVars, schedVars, parseVars, heapVars>>

IoNext ==
  \/ NetCreatePi
  \/ IoCreatePo
  \/ NetCreateGate2

SpecIo == IoInit /\ [][IoNext]_vars

(***************************************************************************)
(* The index of an input: pi_index is called on any primary input of a     *)
(* network of inputs, outputs and gates of `ctor`.                         *)
(***************************************************************************)
\* what a read past the end of a container can yield
OutOfBounds == 0 .. MaxNodes

\* pi_index and ci_index return children[0].data of the node.  The create_pi
\* of primary_network stores the position of the input in both child slots;
\* the create_pi of gtg_network stores no child, and the read of children[0]
\* is past the end of the children of the node: it yields any value
pi_index(v, n, i) ==
  IF node_at(n, i).children = <<>> THEN OutOfBounds
  ELSE {signal_data(node_at(n, i).children[1])}

PiInit == NetInit /\ ctor = "and"

NetPiIndex ==
  /\ \E i \in Range(ntk.inputs) :
       \E r \in pi_index(variant, ntk, i) :
         last' = call("pi_index", <<number(i)>>, number(r), size(ntk))
  /\ UNCHANGED <<variant, ctor, ntk, simVars, schedVars, parseVars, heapVars>>

PiNext ==
  \/ NetCreatePi
  \/ IoCreatePo
  \/ NetCreateGate2
  \/ NetPiIndex

SpecPi == PiInit /\ [][PiNext]_vars

(***************************************************************************)
(* Traversal: foreach_fanin is called on any node of a network of inputs   *)
(* and gates of `ctor`, with a callback that stops on the signals of a     *)
(* set chosen among the children of the node.                              *)
(***************************************************************************)
TravConstructors(v) == IF v = "gtg" THEN {"and", "maj"} ELSE {"and"}

TravInit == NetInit /\ ctor \in TravConstructors(variant)

TravForeachFanin ==
  /\ \E i \in 0 .. (size(ntk) - 1) :
       \E stop \in SUBSET Range(node_at(ntk, i).children) :
         last' = call("foreach_fanin", <<number(i), [stop |-> stop]>>,
                      [visited |-> foreach_fanin(variant, ntk, i, stop)], size(ntk))
  /\ UNCHANGED <<variant, ctor, ntk, simVars, schedVars, parseVars, heapVars>>

TravNext ==
  \/ NetCreatePi
  \/ NetCreateGate2
  \/ NetCreateGate3
  \/ TravForeachFanin

SpecTrav == TravInit /\ [][TravNext]_vars

(***************************************************************************)
(* The native constructors of the three network classes: a run builds     *)
(* inputs and gates of one native constructor `ctor` of its class.         *)
(***************************************************************************)
NativeVariants == {"primary", "gtg", "gtg_dot"}

NativeConstructors(v) ==
  IF v = "gtg" THEN Gate2Ops \cup Gate3Ops
  ELSE IF v = "gtg_dot" THEN Gate2Ops \cup {"maj", "ite", "xor3"}
  ELSE Gate2Ops

NativeInit ==
  /\ variant \in NativeVariants
  /\ ctor \in NativeConstructors(variant)
  /\ ntk = new_network(variant)
  /\ last = no_call
  /\ SimIdle
  /\ SchedIdle
  /\ ParseIdle

NativeNext ==
  \/ NetCreatePi
  \/ NetCreateGate2
  \/ NetCreateGate3

SpecNative == NativeInit /\ [][NativeNext]_vars

(***************************************************************************)
(* Network objects and their storages: the first object is made by the     *)
(* default constructor, the others by clone() of an object that exists;    *)
(* inputs, AND gates over uncomplemented signals, outputs and traversal    *)
(* ids are then made through any object.  `last` records the operation     *)
(* and the object it was called on.                                        *)
(***************************************************************************)
CloneInit ==
  /\ variant \in Variants
  /\ ctor = "and"
  /\ heap = [storages |-> <<new_network(variant)>>, handles |-> <<1>>]
  /\ ntk = new_network(variant)
  /\ last = no_call
  /\ prog = <<>>
  /\ pos = 0
  /\ phase = "none"
  /\ status = "none"
  /\ rd = no_reader
  /\ diag = <<>>
  /\ token = ""
  /\ hooks = <<>>
  /\ lx = no_lexer
  /\ SimIdle
  /\ SchedIdle

CloneClone ==
  /\ Len(heap.handles) < MaxHandles
  /\ \E h \in DOMAIN heap.handles :
       /\ heap' = clone(variant, heap, h)
       /\ last' = call("clone", <<number(h)>>, number(Len(heap.handles) + 1), 0)
  /\ UNCHANGED <<variant, ctor, ntk, simVars, schedVars, parseVars>>

CloneCreatePi ==
  /\ \E h \in DOMAIN heap.handles :
       /\ size(storage_of(heap, h)) < MaxNodes
       /\ heap' = heap_put(heap, h, create_pi(variant, storage_of(heap, h)).ntk)
       /\ last' = call("create_pi", <<number(h)>>, number(0), 0)
  /\ UNCHANGED <<variant, ctor, ntk, simVars, schedVars, parseVars>>

CloneCreatePo ==
  /\ \E h \in DOMAIN heap.handles :
       /\ num_pos(storage_of(heap, h)) < MaxPos
       /\ \E f \in Plain(storage_of(heap, h)) :
            heap' = heap_put(heap, h, create_po(storage_of(heap, h), f).ntk)
       /\ last' = call("create_po", <<number(h)>>, number(0), 0)
  /\ UNCHANGED <<variant, ctor, ntk, simVars, schedVars, parseVars>>

CloneCreateGate2 ==
  /\ \E h \in DOMAIN heap.handles :
       /\ size(storage_of(heap, h)) < MaxNodes
       /\ \E a \in Plain(storage_of(heap, h)), b \in Plain(storage_of(heap, h)) :
            heap' = heap_put(heap, h,
                             create_gate2(variant, storage_of(heap, h), ctor, a, b).ntk)
       /\ last' = call(ctor, <<number(h)>>, number(0), 0)
  /\ UNCHANGED <<variant, ctor, ntk, simVars, schedVars, parseVars>>

CloneIncrTravId ==
  /\ \E h \in DOMAIN heap.handles :
       /\ storage_of(heap, h).trav_id < MaxTravId
       /\ heap' = heap_put(heap, h, incr_trav_id(storage_of(heap, h)))
       /\ last' = call("incr_trav_id", <<number(h)>>, number(0), 0)
  /\ UNCHANGED <<variant, ctor, ntk, simVars, schedVars, parseVars>>

CloneNext ==
  \/ CloneClone
  \/ CloneCreatePi
  \/ CloneCreatePo
  \/ CloneCreateGate2
  \/ CloneIncrTravId

SpecClone == CloneInit /\ [][CloneNext]_vars

(***************************************************************************)
(* The constructors with observers: on_add observers 1, 2, .. are          *)
(* registered at any time; create_buf, create_not and get_constant are     *)
(* called on any signal.                                                   *)
(***************************************************************************)
\* the constructors the runs with observers build their gates with
ApiConstructors(v) ==
  IF v = "gtg" THEN {"and", "xnor", "maj", "ite", "create_node", "clone_node"}
  ELSE {"and", "xnor", "clone_node"}

ApiInit == NetInit /\ ctor \in ApiConstructors(variant)

ApiRegister ==
  /\ Len(ntk.events.on_add) < MaxObservers
  /\ ntk' = register_add_event(ntk, Len(ntk.events.on_add) + 1)
  /\ last' = call("register_add_event", <<>>, number(0), size(ntk))
  /\ UNCHANGED <<variant, ctor, simVars, schedVars, parseVars, heapVars>>

ApiCreateBuf ==
  /\ \E f \in Signals(ntk) : last' = call("create_buf", <<f>>, create_buf(f), size(ntk))
  /\ UNCHANGED <<variant, ctor, ntk, simVars, schedVars, parseVars, heapVars>>

ApiCreateNot ==
  /\ \E f \in Signals(ntk) : last' = call("create_not", <<f>>, create_not(f), size(ntk))
  /\ UNCHANGED <<variant, ctor, ntk, simVars, schedVars, parseVars, heapVars>>

ApiGetConstant ==
  /\ \E b \in BOOLEAN : last' = call("get_constant", <<number(b)>>, get_constant(b), size(ntk))
  /\ UNCHANGED <<variant, ctor, ntk, simVars, schedVars, parseVars, heapVars>>

ApiNext ==
  \/ ApiRegister
  \/ ApiCreateBuf
  \/ ApiCreateNot
  \/ ApiGetConstant
  \/ NetCreatePi
  \/ NetCreateGate2
  \/ NetCreateGate3
  \/ NetCreateNode
  \/ NetCloneNode

SpecApi == ApiInit /\ [][ApiNext]_vars

(***************************************************************************)
(* Simulation of one gate: a network of three inputs and one gate built by *)
(* `ctor` over them, each operand plain or complemented; the gate is then  *)
(* simulated once in each mode.                                            *)
(***************************************************************************)
three_inputs(v) ==
  create_pi(v, create_pi(v, create_pi(v, new_network(v)).ntk).ntk).ntk

SimGates(v) == IF v = "gtg" THEN Gate2Ops \cup Gate3Ops ELSE Gate2Ops

one_gate(v, op, cs) ==
  IF op \in Gate2Ops
    THEN create_gate2(v, three_inputs(v), op, cs[1], cs[2])
    ELSE gtg_create_gate3(three_inputs(v), op, cs[1], cs[2], cs[3])

gate_arity(op) == IF op \in Gate2Ops THEN 2 ELSE 3

SimInit ==
  /\ variant \in Variants
  /\ ctor \in SimGates(variant)
  /\ \E c \in [1 .. gate_arity(ctor) -> 0 .. 1] :
       LET cs == [i \in 1 .. gate_arity(ctor) |-> signal(i, c[i])]
           r == one_gate(variant, ctor, cs)
       IN /\ ntk = r.ntk
          /\ last = call(ctor, cs, r.res, 4)
  /\ SimIdle
  /\ SchedIdle
  /\ ParseIdle

SimScalar ==
  /\ simS = no_sim
  /\ \E values \in [1 .. gate_arity(ctor) -> 0 .. 1] :
       simS' = [values |-> values,
                out |-> compute_bit(variant, ntk, last.res.index, values)]
  /\ UNCHANGED <<netVars, simB, schedVars, parseVars, heapVars>>

SimBulk ==
  /\ simB = no_sim
  /\ \E values \in [1 .. gate_arity(ctor) -> 0 .. (Pow2(SimBits) - 1)] :
       simB' = [values |-> values,
                out |-> compute_tt(variant, ntk, last.res.index, SimBits, values)]
  /\ UNCHANGED <<netVars, simS, schedVars, parseVars, heapVars>>

SimNext ==
  \/ SimScalar
  \/ SimBulk

SpecSim == SimInit /\ [][SimNext]_vars

\* C3: the scalar result of a gate is bit i of its bulk result whenever bit i
\* of every fan-in vector is the scalar value of that fan-in.
SimulationEquivalence ==
  (simS # no_sim /\ simB # no_sim) =>
    \A i \in 0 .. (SimBits - 1) :
      (\A j \in DOMAIN simS.values : vec_bit(simB.values[j], i) = simS.values[j])
        => simS.out = vec_bit(simB.out, i)

(***************************************************************************)
(* The derived constructors of primary_network: one call of `ctor` on a    *)
(* network of three inputs, its arguments any signals of the network.      *)
(***************************************************************************)
DerivedOps == {"create_lt", "create_le", "create_maj", "create_ite", "create_xor3"}

derived(op, n, cs) ==
  CASE op = "create_lt" -> primary_create_lt(n, cs[1], cs[2])
    [] op = "create_le" -> primary_create_le(n, cs[1], cs[2])
    [] op = "create_maj" -> primary_create_maj(n, cs[1], cs[2], cs[3])
    [] op = "create_ite" -> primary_create_ite(n, cs[1], cs[2], cs[3])
    [] op = "create_xor3" -> primary_create_xor3(n, cs[1], cs[2], cs[3])

derived_arity(op) == IF op \in {"create_lt", "create_le"} THEN 2 ELSE 3

DerivedInit ==
  /\ variant = "primary"
  /\ ctor \in DerivedOps
  /\ ntk = three_inputs("primary")
  /\ last = no_call
  /\ SimIdle
  /\ SchedIdle
  /\ ParseIdle

DerivedCreate ==
  /\ last = no_call
  /\ \E cs \in [1 .. derived_arity(ctor) -> Signals(ntk)] :
       LET r == derived(ctor, ntk, cs)
       IN /\ ntk' = r.ntk
          /\ last' = call(ctor, cs, r.res, size(ntk))
  /\ UNCHANGED <<variant, ctor, simVars, schedVars, parseVars, heapVars>>

DerivedNext == DerivedCreate

SpecDerived == DerivedInit /\ [][DerivedNext]_vars

(***************************************************************************)
(* The constructors of three inputs that primary_network shares with       *)
(* gtg_network: one call of `ctor` on a network of three inputs, its       *)
(* arguments any signals of the network.                                   *)
(***************************************************************************)
SharedOps ==
  {"mux21", "nmux21", "nand3", "nor3", "aoi21", "oai21", "axi21", "xai21",
   "oxi21", "xoi21"}

negated(r) == [ntk |-> r.ntk, res |-> signal_not(r.res)]

\* op( inner( x, y ), z ) over the constructors of two inputs
composed(n, inner, x, y, op, z) ==
  LET g == create_gate2("primary", n, inner, x, y)
  IN create_gate2("primary", g.ntk, op, g.res, z)

\* create_mux21 .. create_xoi21 of primary_network
primary_create_gate3(n, op, a, b, c) ==
  CASE op = "mux21" -> primary_create_ite(n, a, b, c)
    [] op = "nmux21" -> negated(primary_create_ite(n, a, b, c))
    [] op = "nand3" ->
         LET g == primary_create_and(n, b, c)
         IN negated(primary_create_and(g.ntk, a, g.res))
    [] op = "nor3" ->
         LET g == create_gate2("primary", n, "or", b, c)
         IN negated(create_gate2("primary", g.ntk, "or", a, g.res))
    [] op = "aoi21" -> negated(composed(n, "and", a, b, "or", c))
    [] op = "oai21" -> negated(composed(n, "or", a, b, "and", c))
    [] op = "axi21" -> negated(composed(n, "and", a, c, "xor", b))
    [] op = "xai21" -> negated(composed(n, "xor", a, c, "and", b))
    [] op = "oxi21" -> negated(composed(n, "or", a, c, "xor", b))
    [] op = "xoi21" -> negated(composed(n, "xor", a, c, "or", b))

\* the functions the comments of gtg_network give for its gates of three
\* inputs, on the values x of a, b and c; mux21 is "same as ite" and nmux21
\* has the literal next to it, which is its complement
documented_gate(op, x) ==
  LET a == x[1]
      b == x[2]
      c == x[3]
      and(u, v) == u * v
      or(u, v) == u + v - u * v
      xor(u, v) == (u + v) % 2
  IN CASE op = "mux21" -> IF a = 1 THEN b ELSE c
       [] op = "nmux21" -> 1 - (IF a = 1 THEN b ELSE c)
       [] op = "nand3" -> 1 - and(a, and(b, c))
       [] op = "nor3" -> 1 - or(a, or(b, c))
       [] op = "aoi21" -> 1 - or(and(a, b), c)
       [] op = "oai21" -> 1 - and(or(a, b), c)
       [] op = "axi21" -> 1 - xor(and(a, b), c)
       [] op = "xai21" -> 1 - and(xor(a, b), c)
       [] op = "oxi21" -> 1 - xor(or(a, b), c)
       [] op = "xoi21" -> 1 - or(xor(a, b), c)

SharedInit ==
  /\ variant = "primary"
  /\ ctor \in SharedOps
  /\ ntk = three_inputs("primary")
  /\ last = no_call
  /\ SimIdle
  /\ SchedIdle
  /\ ParseIdle

SharedCreate ==
  /\ last = no_call
  /\ \E cs \in [1 .. 3 -> Signals(ntk)] :
       LET r == primary_create_gate3(ntk, ctor, cs[1], cs[2], cs[3])
       IN /\ ntk' = r.ntk
          /\ last' = call(ctor, cs, r.res, size(ntk))
  /\ UNCHANGED <<variant, ctor, simVars, schedVars, parseVars, heapVars>>

SharedNext == SharedCreate

SpecShared == SharedInit /\ [][SharedNext]_vars

(***************************************************************************)
(* The scheduler on its own.  The names of a module are one port, `a`, two *)
(* wires that statements produce, and `z`, which no statement produces.    *)
(* The ports are declared known first; then the statements of `stmts`, a   *)
(* set drawn from the catalogue, are presented in any order, each          *)
(* registering one call; at the end of the module the unresolved           *)
(* dependencies are collected.  `order` is the order of presentation.      *)
(***************************************************************************)
SchedNames == <<"a", "w", "x", "z">>

Ports == <<"a">>

Produced == {"w", "x"}

DepLists ==
  {<<SchedNames[i]>> : i \in DOMAIN SchedNames}
    \cup {<<SchedNames[ij[1]], SchedNames[ij[2]]>> :
             ij \in {p \in (DOMAIN SchedNames) \X (DOMAIN SchedNames) : p[1] < p[2]}}

Catalogue == {deferred(d, <<p>>, <<d, p>>) : d \in DepLists, p \in Produced}

RECURSIVE subsets_up_to(_, _)
\* the subsets of S with at most k elements
subsets_up_to(S, k) ==
  IF k = 0 THEN {{}}
  ELSE LET smaller == subsets_up_to(S, k - 1)
       IN smaller \cup UNION {{T \cup {x} : x \in S} : T \in smaller}

SchedInit ==
  /\ stmts \in subsets_up_to(Catalogue, MaxCalls) \ {{}}
  /\ sched = declare_all(new_scheduler, Ports)
  /\ order = <<>>
  /\ report = no_report
  /\ variant = "gtg"
  /\ ctor = "and"
  /\ ntk = new_network("gtg")
  /\ last = no_call
  /\ SimIdle
  /\ ParseIdle

SchedCallDeferred ==
  /\ ~report.done
  /\ \E c \in stmts \ Range(order) :
       /\ sched' = call_deferred(sched, c)
       /\ order' = Append(order, c)
  /\ UNCHANGED <<stmts, report, netVars, simVars, parseVars, heapVars>>

SchedEndModule ==
  /\ ~report.done
  /\ Range(order) = stmts
  /\ report' = [done |-> TRUE, deps |-> unresolved_dependencies(sched)]
  /\ UNCHANGED <<sched, stmts, order, netVars, simVars, parseVars, heapVars>>

SchedNext ==
  \/ SchedCallDeferred
  \/ SchedEndModule

SpecSched == SchedInit /\ [][SchedNext]_vars

(***************************************************************************)
(* Parsing one module `top` with inputs a, b and output y.  Its body is a  *)
(* sequence of distinct gate statements drawn from GateStatements, over    *)
(* the wires w and x, which are declared when the body names them.         *)
(***************************************************************************)
plain(name) == operand(name, FALSE)

Decl(kw, names) == statement(kw, "", [i \in DOMAIN names |-> plain(names[i])], <<>>)

Gate(kw, inst, lhs, op1, op2) == statement(kw, inst, <<plain(lhs), op1, op2>>, <<>>)

Assign(lhs, tokens) == statement("assign", "", <<plain(lhs)>>, tokens)

AndG1 == Gate("and2", "g1", "w", plain("a"), plain("b"))

AssignYW == Assign("y", <<"w">>)

AssignYAB == Assign("y", <<"a", "&", "b">>)

GateStatements ==
  { AndG1, AssignYW, AssignYAB,
    Gate("or2", "g2", "x", plain("w"), operand("a", TRUE)),
    Gate("xor2", "g3", "y", plain("w"), plain("x")),
    Gate("nand2", "g4", "y", plain("a"), plain("w")),
    Assign("x", <<"~", "w">>),
    statement("and2", "g5", <<plain("w"), plain("a")>>, <<>>),
    Gate("or2", "g1", "x", plain("a"), plain("b")),
    Assign("w", <<"a", "+", "b">>) }

RECURSIVE sequences_up_to(_, _)
\* the sequences of at most k distinct elements of S
sequences_up_to(S, k) ==
  IF k = 0 THEN {<<>>}
  ELSE LET shorter == sequences_up_to(S, k - 1)
       IN shorter \cup UNION {{Append(q, x) : x \in S \ Range(q)} : q \in shorter}

names_in(st) ==
  Range(names_of(st)) \cup (Range(st.expr) \ {"~", "&", "|", "^"})

Declarations(body) ==
  <<Decl("input", <<"a", "b">>), Decl("output", <<"y">>)>>
    \o (IF \E i \in DOMAIN body : names_in(body[i]) \cap {"w", "x"} # {}
          THEN <<Decl("wire", <<"w", "x">>)>>
          ELSE <<>>)

Program(body) == Declarations(body) \o body

is_gate_statement(st) == st.kw \notin {"input", "output", "wire"}

body_of(program) == SelectSeq(program, is_gate_statement)

ScenarioA == Program(<<AssignYAB>>)

ScenarioB == Program(<<AssignYW, AndG1>>)

ParseInit ==
  /\ prog \in {Program(body) : body \in sequences_up_to(GateStatements, MaxStmts) \ {<<>>}}
  /\ pos = 1
  /\ phase = "declarations"
  /\ status = "parsing"
  /\ variant = "gtg"
  /\ rd = new_reader("gtg")
  /\ sched = new_parser
  /\ diag = <<>>
  /\ token = prog[1].kw
  /\ hooks = <<>>
  /\ lx = no_lexer
  /\ heap = no_heap
  /\ report = no_report
  /\ stmts = {}
  /\ order = <<>>
  /\ ctor = "and"
  /\ ntk = new_network("gtg")
  /\ last = no_call
  /\ SimIdle

ParseNext ==
  \/ ParseInputs
  \/ ParseOutputs
  \/ ParseWires
  \/ ParseGate2
  \/ LeaveDeclarations
  \/ ParseAssign
  \/ ParseModuleInstantiation
  \/ ParseEndModule

SpecParse == ParseInit /\ [][ParseNext]_vars

(***************************************************************************)
(* The parser on modules with a latch: after the declarations of Program   *)
(* the latch output `q` is declared, and the body may hold a gate that     *)
(* reads `q`.                                                              *)
(***************************************************************************)
AndG6 == Gate("and2", "g6", "y", plain("q"), plain("a"))

LatchProgram(body) == Declarations(body) \o <<Decl("output_latch", <<"q">>)>> \o body

LatchInit ==
  /\ prog \in {LatchProgram(body) :
                 body \in sequences_up_to(GateStatements \cup {AndG6}, MaxStmts) \ {<<>>}}
  /\ pos = 1
  /\ phase = "declarations"
  /\ status = "parsing"
  /\ variant = "gtg"
  /\ rd = new_reader("gtg")
  /\ sched = new_parser
  /\ diag = <<>>
  /\ token = prog[1].kw
  /\ hooks = <<>>
  /\ lx = no_lexer
  /\ heap = no_heap
  /\ report = no_report
  /\ stmts = {}
  /\ order = <<>>
  /\ ctor = "and"
  /\ ntk = new_network("gtg")
  /\ last = no_call
  /\ SimIdle

LatchNext == ParseNext \/ ParseOutputLatch

SpecLatch == LatchInit /\ [][LatchNext]_vars

(***************************************************************************)
(* The parser on modules of inverters: the body holds not and inv gates,   *)
(* one of them without its operand.  SpecUnate is the parser of gtg.hpp,   *)
(* SpecOlder the older one, which differs in the branch of inv.            *)
(***************************************************************************)
Gate1(kw, inst, lhs, op1) == statement(kw, inst, <<plain(lhs), op1>>, <<>>)

UnateStatements ==
  { Gate1("not", "n1", "w", plain("a")),
    Gate1("inv", "i1", "x", plain("w")),
    Gate1("inv", "i2", "y", plain("a")),
    Gate1("not", "n2", "y", plain("x")),
    Gate1("not", "n3", "x", plain("b")),
    statement("inv", "i3", <<plain("w")>>, <<>>),
    statement("not", "n4", <<plain("w")>>, <<>>) }

UnateInit ==
  /\ prog \in {Program(body) : body \in sequences_up_to(UnateStatements, MaxStmts) \ {<<>>}}
  /\ pos = 1
  /\ phase = "declarations"
  /\ status = "parsing"
  /\ variant = "gtg"
  /\ rd = new_reader("gtg")
  /\ sched = new_parser
  /\ diag = <<>>
  /\ token = prog[1].kw
  /\ hooks = <<>>
  /\ lx = no_lexer
  /\ heap = no_heap
  /\ report = no_report
  /\ stmts = {}
  /\ order = <<>>
  /\ ctor = "and"
  /\ ntk = new_network("gtg")
  /\ last = no_call
  /\ SimIdle

UnateNext ==
  \/ ParseInputs
  \/ ParseOutputs
  \/ ParseWires
  \/ ParseNot
  \/ ParseInv
  \/ LeaveDeclarations
  \/ ParseEndModule

SpecUnate == UnateInit /\ [][UnateNext]_vars

OlderNext ==
  \/ ParseInputs
  \/ ParseOutputs
  \/ ParseWires
  \/ ParseNot
  \/ ParseInvOlder
  \/ LeaveDeclarations
  \/ ParseEndModule

SpecOlder == UnateInit /\ [][OlderNext]_vars

(***************************************************************************)
(* The reader driven through its handlers: a module with one input `a`    *)
(* and the names `u` and `w`, bound by no declaration; on_outputs,         *)
(* on_assign and the gate handler of `ctor` are called in any order, then  *)
(* on_endmodule once.  A handler binds `u` or `w`; its first operand is    *)
(* any name, plain or negated, its second one any name.  `last` records    *)
(* the most recent handler call.                                           *)
(***************************************************************************)
RdNames == {"a", "u", "w"}

RdTargets == {"u", "w"}

RdOperands == {operand(x, neg) : x \in RdNames, neg \in BOOLEAN}

RdPlain == {operand(x, FALSE) : x \in RdNames}

RdConstructors == {"and"}

RdInit ==
  /\ variant \in Variants
  /\ ctor \in RdConstructors
  /\ rd = on_inputs(variant, new_reader(variant), <<"a">>)
  /\ phase = "reading"
  /\ last = no_call
  /\ ntk = new_network(variant)
  /\ prog = <<>>
  /\ pos = 0
  /\ status = "none"
  /\ diag = <<>>
  /\ token = ""
  /\ hooks = <<>>
  /\ lx = no_lexer
  /\ heap = no_heap
  /\ SimIdle
  /\ SchedIdle

RdOutputs ==
  /\ phase = "reading"
  /\ Len(rd.outputs) < MaxOutputs
  /\ \E name \in RdTargets :
       /\ rd' = on_outputs(rd, <<name>>)
       /\ last' = call("on_outputs", <<plain(name)>>, number(0), size(rd.ntk))
  /\ UNCHANGED <<variant, ctor, ntk, phase, prog, pos, status, diag, token, hooks, lx,
                 simVars, schedVars, heapVars>>

RdAssign ==
  /\ phase = "reading"
  /\ \E lhs \in RdTargets, rhs \in RdOperands :
       /\ rd' = on_assign(rd, lhs, rhs)
       /\ last' = call("on_assign", <<plain(lhs), rhs>>, number(0), size(rd.ntk))
  /\ UNCHANGED <<variant, ctor, ntk, phase, prog, pos, status, diag, token, hooks, lx,
                 simVars, schedVars, heapVars>>

RdGate2 ==
  /\ phase = "reading"
  /\ size(rd.ntk) < MaxNodes
  /\ \E lhs \in RdTargets, op1 \in RdOperands, op2 \in RdPlain :
       /\ rd' = on_gate2(variant, rd, ctor, lhs, op1, op2)
       /\ last' = call("on_gate2", <<plain(lhs), op1, op2>>, number(0), size(rd.ntk))
  /\ UNCHANGED <<variant, ctor, ntk, phase, prog, pos, status, diag, token, hooks, lx,
                 simVars, schedVars, heapVars>>

RdEndModule ==
  /\ phase = "reading"
  /\ rd' = on_endmodule(rd)
  /\ phase' = "ended"
  /\ last' = call("on_endmodule", <<>>, number(0), size(rd.ntk))
  /\ UNCHANGED <<variant, ctor, ntk, prog, pos, status, diag, token, hooks, lx,
                 simVars, schedVars, heapVars>>

RdNext ==
  \/ RdOutputs
  \/ RdAssign
  \/ RdGate2
  \/ RdEndModule

SpecReader == RdInit /\ [][RdNext]_vars

(***************************************************************************)
(* The token level driven by its two readers: get_token and                *)
(* parse_signal_name are called in any order on an input of up to          *)
(* MaxTokens tokens.                                                       *)
(***************************************************************************)
LexAlphabet == {"a", "b", "[", "]", ""}

\* the inputs of at most k tokens
streams_up_to(S, k) == UNION {[1 .. n -> S] : n \in 0 .. k}

LexInit ==
  /\ lx \in {lexer(t, <<>>, "", FALSE) : t \in streams_up_to(LexAlphabet, MaxTokens)}
  /\ heap = no_heap
  /\ variant = "gtg"
  /\ ctor = "and"
  /\ ntk = new_network("gtg")
  /\ last = no_call
  /\ prog = <<>>
  /\ pos = 0
  /\ phase = "none"
  /\ status = "none"
  /\ rd = no_reader
  /\ diag = <<>>
  /\ token = ""
  /\ hooks = <<>>
  /\ SimIdle
  /\ SchedIdle

LexGetToken ==
  /\ lx' = next_token(lx)
  /\ last' = call("get_token", <<>>, number(IF lx'.valid THEN 1 ELSE 0), 0)
  /\ UNCHANGED <<variant, ctor, ntk, simVars, schedVars, heapVars>>
  /\ UNCHANGED <<prog, pos, phase, status, rd, diag, token, hooks>>

LexParseSignalName ==
  /\ LET r == parse_signal_name(lx)
     IN /\ lx' = r.lex
        /\ last' = call("parse_signal_name", <<>>, number(IF r.ret THEN 1 ELSE 0), 0)
  /\ UNCHANGED <<variant, ctor, ntk, simVars, schedVars, heapVars>>
  /\ UNCHANGED <<prog, pos, phase, status, rd, diag, token, hooks>>

LexNext ==
  \/ LexGetToken
  \/ LexParseSignalName

SpecLex == LexInit /\ [][LexNext]_vars

(***************************************************************************)
(* parse_modules at the token level.  `phase` is the place control has     *)
(* reached: the name of a function at its entry, or of one of its loops    *)
(* at the head of an iteration; a step runs the straight-line code from    *)
(* there to the next such place.  Of the statements of a module the model  *)
(* reads input and output declarations, and2 gates, assignments and        *)
(* instantiations; the other gates are read by the same function as and2.  *)
(* Size ranges are read but not expanded, and the assertions on            *)
(* set_all_wires are compiled out.                                         *)
(***************************************************************************)
\* a call has been dispatched that the gate function has no branch for
unknown_gate_function(s) ==
  \E i \in DOMAIN s.log : s.log[i].payload.type \notin GateFnTypes

\* std::abort() in the gate function: the parser does not return
aborted(l, s) == [lx |-> l, sched |-> s, phase |-> "aborted", status |-> "aborted"]

reached(l, s, p) ==
  IF unknown_gate_function(s) THEN aborted(l, s)
  ELSE [lx |-> l, sched |-> s, phase |-> p, status |-> "running"]

returned(l, s, ok) ==
  IF unknown_gate_function(s) THEN aborted(l, s)
  ELSE [lx |-> l, sched |-> s, phase |-> "returned",
        status |-> IF ok THEN "true" ELSE "false"]

\* tokens that begin with the two characters //
LineComments == {"//", "//a"}

\* arg0.substr( 1, arg0.size() ) for the tokens of the inputs
rest_of(t) ==
  CASE t = ".a" -> "a"
    [] t = ".y" -> "y"
    [] t = "//" -> "/"
    [] t = "//a" -> "/a"
    [] t = "/*" -> "*"
    [] t = "*/" -> "/"
    [] t = "module" -> "odule"
    [] t = "endmodule" -> "ndmodule"
    [] t = "input" -> "nput"
    [] t = "output" -> "utput"
    [] t = "assign" -> "ssign"
    [] t = "and2" -> "nd2"
    [] t = "top" -> "op"
    [] OTHER -> ""

RECURSIVE join(_)
\* the tokens of a word as line holds them, one space between two
join(w) ==
  IF w = <<>> THEN ""
  ELSE IF Len(w) = 1 THEN w[1] ELSE w[1] \o " " \o join(Tail(w))

first_index(w, t) ==
  IF t \in Range(w) THEN CHOOSE i \in DOMAIN w : w[i] = t /\ \A j \in 1 .. (i - 1) : w[j] # t
  ELSE 0

\* parse_port: what stands between the first ( and the first ), or the word
parse_port(w) ==
  LET open == first_index(w, "(")
      close == first_index(w, ")")
  IN IF open # 0 /\ close # 0
       THEN IF close > open THEN join(SubSeq(w, open + 1, close - 1))
            ELSE join(SubSeq(w, open + 1, Len(w)))
       ELSE join(w)

RECURSIVE split_words(_)
\* std::getline( iss, word, ',' ) over the line: a comma ends a word, and
\* nothing follows the last comma of a line that ends with one
split_words(line) ==
  IF line = <<>> THEN <<>>
  ELSE LET comma == first_index(line, ",")
       IN IF comma = 0 THEN <<line>>
          ELSE <<SubSeq(line, 1, comma - 1)>> \o split_words(SubSeq(line, comma + 1, Len(line)))

RECURSIVE connected(_, _)
\* the signals the pins named after `names` are bound to, name by name
connected(names, args) ==
  IF names = <<>> THEN <<>>
  ELSE LET of_name == SelectSeq(args, LAMBDA a : rest_of(a[1]) = Head(names))
       IN [i \in DOMAIN of_name |-> of_name[i][2]] \o connected(Tail(names), args)

\* on_action.call_deferred on a call and a scheduler taken once, as values
call_registered(s, c) == CHOOSE r \in {call_deferred(v, w) : v \in {s}, w \in {c}} : TRUE

counted(l) == [l EXCEPT !.statements = @ + 1]

\* parse_module, the condition of its first loop after a statement
after_declaration(l, s) ==
  IF l.token \in {"assign", "endmodule"}
    THEN reached(counted(l), s, "statements")
    ELSE reached(counted(l), s, "declarations")

\* parse_module, the get_token that follows a statement of its second loop
after_statement(l, s) ==
  LET l1 == next_token(counted(l))
  IN IF ~l1.valid THEN returned(l1, s, FALSE) ELSE reached(l1, s, "statements")

parse_modules(l, s) ==
  LET l1 == next_token(l)
  IN IF ~l1.valid THEN returned(l1, s, FALSE) ELSE reached(l1, s, "skip_comments")

\* skip_comments, the condition of its last loop: on from it, parse_modules
\* takes no notice of what skip_comments returns and looks at token
seek_module(l, s) ==
  IF l.valid /\ l.token # "module" THEN reached(l, s, "seek_module")
  ELSE IF l.token # "module" THEN returned(l, s, FALSE)
  ELSE reached(l, s, "parse_module_header")

\* the condition of the loop over the comments
next_comment(l, s) ==
  IF l.valid THEN reached(l, s, "skip_comments") ELSE seek_module(l, s)

\* the condition of the loop over a block comment, and the get_token that
\* skips the closing */
block_comment(l, s) ==
  IF l.valid /\ l.token # "*/" THEN reached(l, s, "block_comment")
  ELSE next_comment(next_token(l), s)

\* the three loops of skip_comments, one iteration each
skip_comments(l, s, p) ==
  IF p = "skip_comments"
    THEN IF l.token \in LineComments THEN next_comment(next_token(l), s)
         ELSE IF l.token = "/*" THEN block_comment(next_token(l), s)
         ELSE seek_module(l, s)
    ELSE IF p = "block_comment"
      THEN block_comment(next_token(l), s)
      ELSE seek_module(next_token(l), s)

parse_module_header(l, s, p) ==
  IF p = "parse_module_header"
    THEN IF l.token # "module" THEN returned(l, s, FALSE)
         ELSE LET l1 == next_token(l)
              IN IF ~l1.valid THEN returned(l1, s, FALSE)
                 ELSE LET l2 == next_token([l1 EXCEPT !.module_name = l1.token])
                      IN IF ~l2.valid \/ l2.token # "("
                           THEN returned(l2, s, FALSE)
                           ELSE reached(l2, s, "inouts")
    ELSE LET r == parse_signal_name(l)
         IN IF ~r.ret THEN returned(r.lex, s, FALSE)
            ELSE LET l1 == next_token(r.lex)
                 IN IF ~l1.valid \/ l1.token \notin {",", ")"}
                      THEN returned(l1, s, FALSE)
                      ELSE IF l1.token # ")" THEN reached(l1, s, "inouts")
                      ELSE LET l2 == next_token(l1)
                           IN IF ~l2.valid \/ l2.token # ";"
                                THEN returned(l2, s, FALSE)
                                ELSE reached(l2, s, "declarations")

\* the head of an iteration of the first loop, and of the second one with
\* the check of dangling objects that follows it
parse_module(l, s, p) ==
  IF p = "declarations"
    THEN LET l1 == next_token(l)
         IN IF ~l1.valid THEN returned(l1, s, FALSE)
            ELSE IF l1.token \in {"input", "output"} THEN reached(l1, s, "parse_inputs")
            ELSE IF l1.token = "and2" THEN reached(l1, s, "parse_and2")
            ELSE reached(l1, s, "statements")
    ELSE IF l.token = "endmodule"
           THEN returned(l, s, unresolved_dependencies(s) = {})
           ELSE IF l.token = "assign"
                  THEN reached(l, s, "parse_assign")
                  ELSE reached(l, s, "parse_module_instantiation")

\* modules[ module_name ].inputs = inputs, or .outputs = outputs
declared(l) ==
  IF l.decl = "input"
    THEN [l EXCEPT !.modules = @ \cup {l.module_name}, !.inputs = l.names]
    ELSE [l EXCEPT !.modules = @ \cup {l.module_name}, !.outputs = l.names]

\* parse_inputs and parse_outputs: the entry, the loop over a size and the
\* loop over the names
parse_inputs(l, s, p) ==
  IF p = "parse_inputs"
    THEN LET r == parse_signal_name([l EXCEPT !.decl = l.token])
         IN IF ~r.ret /\ r.lex.token = "["
              THEN reached(r.lex, s, "size")
              ELSE reached([r.lex EXCEPT !.names = <<r.lex.token>>], s, "names")
    ELSE IF p = "size"
      THEN LET l1 == next_token(l)
           IN IF ~l1.valid THEN returned(l1, s, FALSE)
              ELSE IF l1.token # "]" THEN reached(l1, s, "size")
              ELSE LET r == parse_signal_name(l1)
                   IN IF ~r.ret THEN returned(r.lex, s, FALSE)
                      ELSE reached([r.lex EXCEPT !.names = <<r.lex.token>>], s, "names")
      ELSE LET l1 == next_token(l)
           IN IF ~l1.valid \/ l1.token \notin {",", ";"} THEN returned(l1, s, FALSE)
              ELSE IF l1.token = ";"
                THEN after_declaration(declared(l1),
                                       IF l1.decl = "input" THEN declare_all(s, l1.names) ELSE s)
                ELSE LET r == parse_signal_name(l1)
                     IN IF ~r.ret THEN returned(r.lex, s, FALSE)
                        ELSE reached([r.lex EXCEPT !.names = Append(@, r.lex.token)], s, "names")

\* parse_and2 over parse_general_binate_expression: the entry, and the loop
\* over the line within parentheses with what follows it
parse_and2(l, s, p) ==
  IF p = "parse_and2"
    THEN LET l1 == next_token(l)
         IN IF ~l1.valid THEN returned(l1, s, FALSE)
            ELSE IF l1.token \in l1.processed
              THEN after_declaration(l1,
                     call_registered(s, gate_call(<<operand("", FALSE), operand("", FALSE)>>,
                                                "", "and2")))
              ELSE LET l2 == next_token([l1 EXCEPT !.processed = @ \cup {l1.token}])
                   IN IF ~l2.valid \/ l2.token # "("
                        THEN returned(l2, s, FALSE)
                        ELSE reached([l2 EXCEPT !.depth = 1, !.line = <<>>], s, "line")
    ELSE LET l1 == next_token(l)
             words == split_words(l.line)
         IN IF ~l1.valid THEN returned(l1, s, FALSE)
            ELSE IF l1.token = ")" /\ l.depth = 1
              THEN IF Len(words) # 3 THEN returned(l1, s, FALSE)
                   ELSE LET l2 == next_token(l1)
                        IN IF ~l2.valid \/ l2.token # ";"
                             THEN returned(l2, s, FALSE)
                             ELSE after_declaration(l2,
                                    call_registered(s, gate_call(
                                      <<operand(parse_port(words[2]), FALSE),
                                        operand(parse_port(words[3]), FALSE)>>,
                                      parse_port(words[1]), "and2")))
              ELSE IF l1.token = ";" THEN returned(l1, s, FALSE)
              ELSE reached([l1 EXCEPT !.line = Append(@, l1.token),
                                      !.depth = IF l1.token = "(" THEN @ + 1
                                                ELSE IF l1.token = ")" THEN @ - 1 ELSE @],
                           s, "line")

\* parse_assign: the entry, and the loop of parse_rhs_expression with what
\* follows it
parse_assign(l, s, p) ==
  IF p = "parse_assign"
    THEN LET r == parse_signal_name(l)
         IN IF ~r.ret THEN returned(r.lex, s, FALSE)
            ELSE LET l1 == next_token([r.lex EXCEPT !.lhs = r.lex.token])
                 IN IF ~l1.valid \/ l1.token # "="
                      THEN returned(l1, s, FALSE)
                      ELSE reached([l1 EXCEPT !.line = <<>>], s, "rhs")
    ELSE LET l1 == next_token(l)
         IN IF ~l1.valid THEN returned(l1, s, FALSE)
            ELSE IF l1.token \notin {";", "assign", "endmodule"}
              THEN reached([l1 EXCEPT !.line = Append(@, l1.token)], s, "rhs")
              ELSE LET e == parse_rhs_expression(s, l.lhs, l.line)
                   IN IF ~e.ok \/ l1.token # ";"
                        THEN returned(l1, e.sched, FALSE)
                        ELSE after_statement(l1, e.sched)

\* inst_name = token and the ( that opens the pins
instantiation_name(l, s) ==
  LET l1 == next_token(l)
  IN IF ~l1.valid \/ l1.token # "("
       THEN returned(l1, s, FALSE)
       ELSE reached([l1 EXCEPT !.args = <<>>, !.success = TRUE], s, "pins")

\* parse_module_instantiation: the entry, the loop over the parameters and
\* the loop over the pins with what follows it
parse_module_instantiation(l, s, p) ==
  IF p = "parse_module_instantiation"
    THEN IF l.token \notin l.modules THEN returned(l, s, FALSE)
         ELSE LET l1 == next_token(l)
              IN IF ~l1.valid THEN returned(l1, s, FALSE)
                 ELSE IF l1.token # "#" THEN instantiation_name(l1, s)
                 ELSE LET l2 == next_token(l1)
                      IN IF ~l2.valid \/ l2.token # "("
                           THEN returned(l2, s, FALSE)
                           ELSE reached(l2, s, "params")
    ELSE IF p = "params"
      THEN LET l1 == next_token(l)
               l2 == next_token(l1)
               l3 == next_token(l2)
           IN IF ~l1.valid THEN returned(l1, s, FALSE)
              ELSE IF ~l2.valid THEN returned(l2, s, FALSE)
              ELSE IF l2.token = "," THEN reached(l2, s, "params")
              ELSE IF l2.token # ")" THEN returned(l2, s, FALSE)
              ELSE IF ~l3.valid THEN returned(l3, s, FALSE)
              ELSE instantiation_name(l3, s)
      ELSE LET l1 == next_token(l)
               l2 == next_token(l1)
               l3 == next_token(l2)
               l4 == next_token(l3)
               l5 == next_token(l4)
               pin == rest_of(l1.token) \in Range(l.inputs) \cup Range(l.outputs)
               l6 == [l5 EXCEPT !.args = Append(@, <<l1.token, l3.token>>),
                                !.success = @ /\ pin]
               l7 == next_token(l6)
               s1 == call_registered(s, deferred(connected(l7.inputs, l7.args),
                                               connected(l7.outputs, l7.args),
                                               [args |-> l7.args, lhs |-> l7.module_name,
                                                type |-> "module"]))
           IN IF ~l1.valid THEN returned(l1, s, FALSE)
              ELSE IF ~l2.valid \/ l2.token # "(" THEN returned(l2, s, FALSE)
              ELSE IF ~l3.valid THEN returned(l3, s, FALSE)
              ELSE IF ~l4.valid \/ l4.token # ")" THEN returned(l4, s, FALSE)
              ELSE IF ~l5.valid THEN returned(l5, s, FALSE)
              ELSE IF l5.token = "," THEN reached(l6, s, "pins")
              ELSE IF l5.token # ")" THEN returned(l6, s, FALSE)
              ELSE IF ~l7.valid \/ l7.token # ";" THEN returned(l7, s, FALSE)
              ELSE IF ~l7.success THEN returned(counted(l7), s1, FALSE)
              ELSE after_statement(l7, s1)

(***************************************************************************)
(* The token-level parser run on the text of one module, on every text     *)
(* with at most MaxEdits of its tokens changed or dropped, on every        *)
(* beginning of it, where the input ends early, and on every input of at   *)
(* most MaxShort tokens.                                                   *)
(***************************************************************************)
TokAlphabet ==
  {"module", "top", "(", ")", ",", ";", "input", "output", "and2", "g", "h",
   "assign", "=", "endmodule", "a", "b", "y", "w", "//", "//a", "/*", "*/",
   "#", "[", "]", ".a", ".y"}

\* a line comment with its text, a token that begins with //, a block
\* comment and a stray word; a header; a sized input declaration; an
\* output; a gate that waits for the gate after it; an assignment; an
\* instantiation of the module itself with two parameters and two pins
ModuleText ==
  <<"//", "a", "//a", "/*", "a", "*/", "a",
    "module", "top", "(", "a", ",", "y", ")", ";",
    "input", "[", "a", "]", "a", ",", "b", ";",
    "output", "y", ";",
    "and2", "g", "(", "y", ",", "w", ",", "a", ")", ";",
    "and2", "h", "(", "w", ",", "a", ",", "b", ")", ";",
    "assign", "w", "=", "y", ";",
    "top", "#", "(", "a", ",", "b", ")", "g",
      "(", ".a", "(", "w", ")", ",", ".y", "(", "y", ")", ")", ";",
    "endmodule">>

\* a module whose one statement assigns the conjunction of three operands
\* that are inputs
TernaryText ==
  <<"module", "top", "(", "a", ",", "y", ")", ";",
    "input", "a", ",", "b", ";",
    "output", "y", ";",
    "assign", "y", "=", "a", "&", "b", "&", "a", ";",
    "endmodule">>

prefixes(p) == {SubSeq(p, 1, n) : n \in 0 .. Len(p)}

substituted(p) == {[p EXCEPT ![i] = t] : i \in DOMAIN p, t \in TokAlphabet}

removed(p) == {remove_at(p, i) : i \in DOMAIN p}

RECURSIVE edited(_, _)
edited(P, k) ==
  IF k = 0 THEN P
  ELSE edited(P \cup UNION {substituted(p) \cup removed(p) : p \in P}, k - 1)

TokStreams ==
  prefixes(ModuleText) \cup prefixes(TernaryText) \cup edited({ModuleText}, MaxEdits)
    \cup streams_up_to(TokAlphabet, MaxShort)

TokInit ==
  /\ lx \in {lexer(t, <<>>, "", FALSE) : t \in TokStreams}
  /\ phase = "parse_modules"
  /\ status = "running"
  /\ sched = new_parser
  /\ stmts = {}
  /\ order = <<>>
  /\ report = no_report
  /\ heap = no_heap
  /\ variant = "gtg"
  /\ ctor = "and"
  /\ ntk = new_network("gtg")
  /\ last = no_call
  /\ prog = <<>>
  /\ pos = 0
  /\ rd = no_reader
  /\ diag = <<>>
  /\ token = ""
  /\ hooks = <<>>
  /\ SimIdle

TokStep(r) ==
  /\ lx' = r.lx
  /\ sched' = r.sched
  /\ phase' = r.phase
  /\ status' = r.status
  /\ UNCHANGED <<netVars, simVars, stmts, order, report, heapVars>>
  /\ UNCHANGED <<prog, pos, rd, diag, token, hooks>>

TokParseModules ==
  /\ phase = "parse_modules"
  /\ \E r \in {parse_modules(lx, sched)} : TokStep(r)

TokSkipComments ==
  /\ phase \in {"skip_comments", "block_comment", "seek_module"}
  /\ \E r \in {skip_comments(lx, sched, phase)} : TokStep(r)

TokParseModuleHeader ==
  /\ phase \in {"parse_module_header", "inouts"}
  /\ \E r \in {parse_module_header(lx, sched, phase)} : TokStep(r)

TokParseModule ==
  /\ phase \in {"declarations", "statements"}
  /\ \E r \in {parse_module(lx, sched, phase)} : TokStep(r)

TokParseInputs ==
  /\ phase \in {"parse_inputs", "size", "names"}
  /\ \E r \in {parse_inputs(lx, sched, phase)} : TokStep(r)

TokParseAnd2 ==
  /\ phase \in {"parse_and2", "line"}
  /\ \E r \in {parse_and2(lx, sched, phase)} : TokStep(r)

TokParseAssign ==
  /\ phase \in {"parse_assign", "rhs"}
  /\ \E r \in {parse_assign(lx, sched, phase)} : TokStep(r)

TokParseModuleInstantiation ==
  /\ phase \in {"parse_module_instantiation", "params", "pins"}
  /\ \E r \in {parse_module_instantiation(lx, sched, phase)} : TokStep(r)

TokNext ==
  \/ TokParseModules
  \/ TokSkipComments
  \/ TokParseModuleHeader
  \/ TokParseModule
  \/ TokParseInputs
  \/ TokParseAnd2
  \/ TokParseAssign
  \/ TokParseModuleInstantiation

SpecTok == TokInit /\ [][TokNext]_vars

\* the parser is one thread of control: a step that can be taken is taken
SpecTokLive == SpecTok /\ WF_vars(TokNext)

(***************************************************************************)
(* Properties of parsing.                                                  *)
(***************************************************************************)
gates_of(n) == {i \in 1 .. (size(n) - 1) : ~is_ci(n, i)}

\* two inputs, one output, and one AND node over the inputs a and b that
\* the output refers to uncomplemented
and_of_a_b(r) ==
  /\ num_pis(r.ntk) = 2
  /\ num_pos(r.ntk) = 1
  /\ \E g \in gates_of(r.ntk) :
       /\ gates_of(r.ntk) = {g}
       /\ node_at(r.ntk, g).lit = gate2_literal["and"]
       /\ node_at(r.ntk, g).children = <<r.signals["a"], r.signals["b"]>>
       /\ is_pi(r.ntk, r.signals["a"].index) /\ r.signals["a"].complement = 0
       /\ is_pi(r.ntk, r.signals["b"].index) /\ r.signals["b"].complement = 0
       /\ r.signals["a"] # r.signals["b"]
       /\ r.ntk.outputs = <<signal(g, 0)>>

finished == status \in {"ok", "failed"}

\* C8: a module whose body is `assign y = w;` followed by
\* `and2 g1(.o(w), .a(a), .b(b));` is parsed successfully and leaves the
\* network of scenario A: two inputs, one output, one AND node over a and b,
\* the output on that node uncomplemented.
OutputBeforeProducer ==
  (prog = ScenarioB /\ finished) => (status = "ok" /\ and_of_a_b(rd))

\* C10: `module top(a,b,y); input a,b; output y; assign y = a & b; endmodule`
\* is parsed successfully and leaves two inputs, one output and one AND node
\* whose children are a and b, the output on that node uncomplemented.
ScenarioANetwork ==
  (prog = ScenarioA /\ finished) => (status = "ok" /\ and_of_a_b(rd))

\* scenario A parsed to the end: on_and has run and on_endmodule has made
\* the output
ScenarioANetworkWitness ==
  /\ prog = ScenarioA
  /\ status = "ok"
  /\ Len(sched.log) = 1 /\ sched.log[1].payload.type = "and2"
  /\ num_pos(rd.ntk) = 1

(***************************************************************************)
(* Properties of the scheduler.                                            *)
(***************************************************************************)
\* statement c feeds statement d: d depends on a name c produces
feeds(c, d) == Range(c.produces) \cap Range(d.deps) # {}

RECURSIVE reaches(_, _, _, _)
\* d is reached from c through at most k statements of S
reaches(S, c, d, k) ==
  IF k = 0 THEN FALSE
  ELSE feeds(c, d) \/ \E e \in S : feeds(c, e) /\ reaches(S, e, d, k - 1)

acyclic(S) == \A c \in S : ~reaches(S, c, c, Cardinality(S))

\* every dependency is a declared port or produced by a statement of S
complete(S) ==
  \A c \in S : \A d \in Range(c.deps) :
    d \in Range(Ports) \/ \E e \in S : d \in Range(e.produces)

occurrences(q, c) == Cardinality({i \in DOMAIN q : q[i] = c})

\* C5: when the statements of a module form an acyclic dependency graph and
\* every dependency is a declared port or produced by a statement, then, in
\* whatever order they were presented, once all are presented every call
\* has been dispatched, and each exactly once.  Dispatch happens inside
\* call_deferred, so "eventually" is no later than the last presentation.
SchedulerLiveness ==
  (acyclic(stmts) /\ complete(stmts) /\ Range(order) = stmts) =>
    /\ \A c \in stmts : occurrences(sched.log, c) = 1
    /\ sched.pending = <<>>

\* three statements presented consumers first: the first two were held and
\* the third released them, in the order they were registered
SchedulerLivenessWitness ==
  /\ acyclic(stmts) /\ complete(stmts)
  /\ Len(order) = 3 /\ Range(order) = stmts
  /\ sched.log = <<order[3], order[1], order[2]>>

RECURSIVE resolvable(_, _, _)
\* the names that can become known: the ports, and what a statement whose
\* dependencies can all become known produces (k rounds)
resolvable(S, K, k) ==
  IF k = 0 THEN K
  ELSE resolvable(S, K \cup UNION {Range(c.produces) :
                                     c \in {e \in S : Range(e.deps) \subseteq K}},
                  k - 1)

Resolvable == resolvable(stmts, Range(Ports), Cardinality(stmts))

\* the statements blocked, directly or through other statements, on a name
\* that never becomes known
Blocked == {c \in stmts : ~(Range(c.deps) \subseteq Resolvable)}

\* C6: at the end of the module the unresolved dependencies reported are
\* those of exactly the blocked calls: each blocked call is reported with
\* each name it still waits for, no dispatched call is reported, and no
\* blocked call is left out.
UnresolvedExactlyBlocked ==
  report.done =>
    /\ report.deps = UNION {{<<c.produces[1], d>> : d \in Range(c.deps) \ Resolvable}
                              : c \in Blocked}
    /\ Range(sched.pending) = Blocked
    /\ Range(sched.log) = stmts \ Blocked

\* a report after a run in which one call was dispatched, one waits for the
\* name nothing produces and one waits for what that one would produce
UnresolvedExactlyBlockedWitness ==
  /\ report.done
  /\ sched.log # <<>>
  /\ \E c, d \in Blocked :
       /\ "z" \in Range(c.deps)
       /\ "z" \notin Range(d.deps)
       /\ feeds(c, d)
       /\ <<d.produces[1], c.produces[1]>> \in report.deps

\* C7: call_deferred dispatches the call it is given at once exactly when
\* all its dependencies are already known; otherwise the call is held; and
\* no call is ever dispatched while one of its dependencies is unknown.
DispatchIffKnown ==
  [][order' # order =>
       LET c == order'[Len(order')]
       IN /\ (sched'.log # sched.log /\ sched'.log[Len(sched.log) + 1] = c)
               <=> (Range(c.deps) \subseteq sched.known)
          /\ ~(Range(c.deps) \subseteq sched.known)
               => sched'.pending = Append(sched.pending, c)
          /\ \A k \in DOMAIN sched'.log :
               Range(sched'.log[k].deps) \subseteq
                 (Range(Ports) \cup UNION {Range(sched'.log[i].produces) : i \in 1 .. (k - 1)})
    ]_vars

\* one call was dispatched at once and another one is held
DispatchIffKnownWitness ==
  /\ Len(order) = 2
  /\ sched.log = <<order[1]>>
  /\ sched.pending = <<order[2]>>

\* a statement every production of which succeeds
grammatical(st) ==
  IF st.kw = "assign"
    THEN LET m == match_rhs(st.expr)
         IN m.form = "immediate" \/ (m.form = "binary" /\ m.op \in DOMAIN binary_type)
    ELSE Len(st.words) = 3

\* the call a gate statement stands for
statement_call(st) ==
  IF st.kw = "assign"
    THEN LET m == match_rhs(st.expr)
         IN gate_call(m.args, st.words[1].name,
                      IF m.form = "immediate" THEN "assign" ELSE binary_type[m.op])
    ELSE gate_call(<<st.words[2], st.words[3]>>, st.words[1].name, st.kw)

calls_of(body) == {statement_call(body[i]) : i \in DOMAIN body}

\* a body whose statements form an acyclic graph, in which every operand is
\* an input or driven by a statement, every name has one driver and the
\* output is driven
well_formed(body) ==
  LET S == calls_of(body)
  IN /\ \A i \in DOMAIN body : grammatical(body[i])
     /\ \A i, j \in DOMAIN body : body[i].inst = body[j].inst => (i = j \/ body[i].inst = "")
     /\ acyclic(S)
     /\ \A c \in S : \A d \in Range(c.deps) :
          d \in {"a", "b"} \/ \E e \in S : d \in Range(e.produces)
     /\ \A c, e \in S : c.produces = e.produces => c = e
     /\ \E c \in S : c.produces = <<"y">>

type_value(type, x) ==
  CASE type = "assign" -> x[1]
    [] type = "and2" -> x[1] * x[2]
    [] type = "nand2" -> 1 - x[1] * x[2]
    [] type = "or2" -> x[1] + x[2] - x[1] * x[2]
    [] type = "nor2" -> 1 - (x[1] + x[2] - x[1] * x[2])
    [] type = "xor2" -> (x[1] + x[2]) % 2
    [] type = "xnor2" -> 1 - ((x[1] + x[2]) % 2)

RECURSIVE name_value(_, _, _, _)
\* the value the statements of S give a name under the input values env
name_value(S, name, env, k) ==
  IF name \in DOMAIN env THEN env[name]
  ELSE IF k = 0 \/ ~\E c \in S : c.produces = <<name>> THEN 0
  ELSE LET c == CHOOSE e \in S : e.produces = <<name>>
           args == c.payload.args
       IN type_value(c.payload.type,
                     [i \in DOMAIN args |->
                        LET x == name_value(S, args[i].name, env, k - 1)
                        IN IF args[i].neg THEN 1 - x ELSE x])

RECURSIVE signal_value(_, _, _)
\* the value of a signal of the network under the input values env, each
\* gate looked up in its table as the bulk mode of compute does
signal_value(r, f, env) ==
  LET i == f.index
      x == IF is_constant(i) THEN 0
           ELSE IF is_ci(r.ntk, i)
             THEN (IF r.signals["a"].index = i THEN env["a"] ELSE env["b"])
             ELSE LET cs == node_at(r.ntk, i).children
                  IN gtg_compute_tt(r.ntk, i, 1,
                                    [j \in DOMAIN cs |-> signal_value(r, cs[j], env)])
  IN IF f.complement = 1 THEN 1 - x ELSE x

Environments == [{"a", "b"} -> 0 .. 1]

\* C9: a module whose gate statements form an acyclic dependency graph over
\* declared wires is accepted in whatever order the statements stand, with
\* the numbers of inputs, outputs and gates and the function of the output
\* that the statements determine, which are the same for every order.
PermutationInvariance ==
  (finished /\ well_formed(body_of(prog))) =>
    /\ status = "ok"
    /\ num_pis(rd.ntk) = 2
    /\ num_pos(rd.ntk) = 1
    /\ Cardinality(gates_of(rd.ntk))
         = Cardinality({c \in calls_of(body_of(prog)) : c.payload.type # "assign"})
    /\ \A env \in Environments :
         signal_value(rd, rd.ntk.outputs[1], env)
           = name_value(calls_of(body_of(prog)), "y", env, Len(prog))

(***************************************************************************)
(* Properties of network construction.                                     *)
(***************************************************************************)

\* C1: in the primary variant, calling a commutative two-input constructor
\* a second time with the same two signals returns the signal the first
\* call returned and leaves the node count unchanged.
HashConsingIdempotence ==
  [][(/\ variant = "primary"
      /\ last.op \in Gate2Ops
      /\ last'.op = last.op
      /\ last'.args = last.args)
       => (last'.res = last.res /\ size(ntk') = size(ntk))]_netVars

\* C2: in the primary variant, create_and(a, b) followed by create_and(b, a)
\* returns the same signal twice and grows the network by one node over the
\* two calls.
CommutativeAndOneNode ==
  [][(/\ variant = "primary"
      /\ last.op = "and"
      /\ last'.op = "and"
      /\ last'.args = <<last.args[2], last.args[1]>>)
       => (last'.res = last.res /\ size(ntk') = last.size0 + 1)]_netVars

\* references to node i from the child slots foreach_fanin visits on live
\* nodes, and from the output list
child_refs(n, i) ==
  Cardinality({jk \in (0 .. (size(n) - 1)) \X (1 .. 3) :
                 /\ ~is_dead(n, jk[1])
                 /\ jk[2] \in DOMAIN fanins(n, jk[1])
                 /\ fanins(n, jk[1])[jk[2]].index = i})

output_refs(n, i) ==
  Cardinality({k \in DOMAIN n.outputs : n.outputs[k].index = i})

\* C4: after any sequence of create_pi, create_po, gate constructors,
\* create_node and clone_node, the fan-out count of every node is the number
\* of child slots of live nodes plus the number of outputs that refer to it.
FanoutConservation ==
  \A i \in 0 .. (size(ntk) - 1) :
    fanout_size(ntk, i) = child_refs(ntk, i) + output_refs(ntk, i)

\* a primary input that feeds both slots of a gate and drives an output
FanoutConservationWitness ==
  \E i \in 0 .. (size(ntk) - 1) :
    /\ is_pi(ntk, i)
    /\ child_refs(ntk, i) = 2
    /\ output_refs(ntk, i) = 1
    /\ fanout_size(ntk, i) = 3

(***************************************************************************)
(* Properties of the end of a module and of failures.                      *)
(***************************************************************************)
count(q, x) == Cardinality({i \in DOMAIN q : q[i] = x})

hook_count(name) == Cardinality({i \in DOMAIN hooks : hooks[i].name = name})

warnings == {i \in DOMAIN diag : diag[i].id = "WRN_UNRESOLVED_DEPENDENCY"}

\* C11: when a call is still held at the end of the module body, the parser
\* reports exactly one unresolved-dependency diagnostic, of level warning,
\* for each unresolved dependency, with the produced name and the missing
\* name as its arguments, reports no other such diagnostic, and fails.
UnresolvedReported ==
  (report.done /\ sched.pending # <<>>) =>
    /\ status = "failed"
    /\ diag_level["WRN_UNRESOLVED_DEPENDENCY"] = "warning"
    /\ \A r \in unresolved_dependencies(sched) :
         count(diag, diagnostic("WRN_UNRESOLVED_DEPENDENCY", r)) = 1
    /\ \A i \in warnings : diag[i].args \in unresolved_dependencies(sched)
    /\ \A c \in Range(sched.pending) :
         \E i \in warnings : diag[i].args[1] \in Range(c.produces)
                             /\ diag[i].args[2] \in Range(c.deps) \ sched.known

\* the module ends with one held call that misses two names
UnresolvedReportedWitness ==
  /\ report.done
  /\ Len(sched.pending) = 1
  /\ Cardinality(unresolved_dependencies(sched)) = 2
  /\ Len(diag) = 2
  /\ status = "failed"

\* C12 as stated: whenever the parser has been through `endmodule`, the
\* on_endmodule hook has been invoked exactly once, after the
\* unresolved-dependency diagnostics.
EndModuleHookOnce ==
  report.done =>
    /\ hook_count("on_endmodule") = 1
    /\ \A i \in DOMAIN hooks :
         hooks[i].name = "on_endmodule" => \A j \in warnings : j <= hooks[i].ndiag

\* C12 amended: the on_endmodule hook is never invoked more than once and
\* never before `endmodule`; at `endmodule` it is invoked exactly once, as
\* the last callback, and makes one output per declared output name, when
\* no call is held; when one is held it is not invoked at all: the
\* diagnostics are reported, the parse fails and no output is made.
EndModuleHookUnlessUnresolved ==
  /\ hook_count("on_endmodule") <= 1
  /\ ~report.done => hook_count("on_endmodule") = 0
  /\ (report.done /\ sched.pending = <<>>) =>
       /\ hook_count("on_endmodule") = 1
       /\ hooks[Len(hooks)] = [name |-> "on_endmodule", ndiag |-> Len(diag)]
       /\ num_pos(rd.ntk) = Len(rd.outputs)
       /\ status = "ok"
  /\ (report.done /\ sched.pending # <<>>) =>
       /\ hook_count("on_endmodule") = 0
       /\ num_pos(rd.ntk) = 0
       /\ warnings # {}
       /\ status = "failed"

\* `endmodule` reached with nothing unresolved: the hook has made the output
EndModuleHookWitness ==
  /\ report.done
  /\ report.deps = {}
  /\ hook_count("on_endmodule") = 1
  /\ num_pos(rd.ntk) = 1

\* the reader after the declarations of the module
declared_reader ==
  on_outputs(on_inputs(variant, new_reader(variant), <<"a", "b">>), <<"y">>)

gate_calls(q) == {i \in DOMAIN q : q[i].payload.type # "assign"}

\* C13: after a parse that fails on an unresolved dependency the network is
\* the one the dispatched calls built: the two inputs, one node for every
\* dispatched gate, no output, and on every node a fan-out count equal to
\* the number of child slots of those gates that refer to it.
PartialNetworkKept ==
  (report.done /\ report.deps # {}) =>
    /\ status = "failed"
    /\ rd.ntk = run_dispatched(variant, declared_reader, sched.log).ntk
    /\ size(rd.ntk) = 3 + Cardinality(gate_calls(sched.log))
    /\ num_pis(rd.ntk) = 2
    /\ num_pos(rd.ntk) = 0
    /\ \A i \in 0 .. (size(rd.ntk) - 1) :
         fanout_size(rd.ntk, i) = child_refs(rd.ntk, i)

\* a failed parse that leaves the gate of a dispatched statement behind
PartialNetworkKeptWitness ==
  /\ report.done
  /\ report.deps # {}
  /\ status = "failed"
  /\ Cardinality(gate_calls(sched.log)) = 1
  /\ size(rd.ntk) = 4
  /\ \E i \in 1 .. 2 : fanout_size(rd.ntk, i) = 1

\* C14: when a production fails inside a statement, exactly one diagnostic
\* has been reported, the parse has failed at that statement, and the
\* callbacks invoked are those of the statements before it.
OneDiagnosticPerFailure ==
  (status = "failed" /\ ~report.done) =>
    /\ Len(diag) = 1
    /\ at_statement
    /\ \A i \in DOMAIN hooks : hooks[i].ndiag = 0

is_name(t) == t \notin {"~", "&", "|", "^", "+"}

\* the operand names and the output name a gate statement declares
declared_operands(st) ==
  IF st.kw = "assign" THEN SelectSeq(st.expr, is_name)
  ELSE [i \in 1 .. (Len(st.words) - 1) |-> st.words[i + 1].name]

declared_output(st) == st.words[1].name

registered(s) == s.log \o s.pending

\* C15: every step that accepts a gate statement registers exactly one call
\* with the scheduler, whose dependencies are the operand names the
\* statement declares and whose product is the output name it declares.
OneCallPerStatement ==
  [][(/\ status = "parsing" /\ status' = "parsing"
      /\ \/ phase = "declarations" /\ token \in DOMAIN gate_type_ctor
         \/ phase = "assignments" /\ token = "assign")
       => LET c == gate_call([i \in DOMAIN declared_operands(current) |->
                                operand(declared_operands(current)[i], FALSE)],
                             declared_output(current), "")
          IN /\ Len(registered(sched')) = Len(registered(sched)) + 1
             /\ \E e \in Range(registered(sched')) :
                  /\ count(registered(sched'), e) = count(registered(sched), e) + 1
                  /\ e.deps = c.deps
                  /\ e.produces = c.produces]_parseVars

(***************************************************************************)
(* Properties of reference counts, simulation, complement and observers.   *)
(***************************************************************************)

\* C16: a call of decr_fanout_size(n) never makes the stored fan-out count
\* of n wrap around: the count does not grow and the bit above it, the dead
\* flag, keeps its value.
FanoutNeverUnderflows ==
  [][last'.op = "decr_fanout_size" =>
       LET i == last'.args[1].value
       IN /\ fanout_size(ntk', i) <= fanout_size(ntk, i)
          /\ is_dead(ntk', i) = is_dead(ntk, i)]_netVars

\* the value of a symmetric gate on the values of its fan-in edges
gate_value(op, x) ==
  CASE op = "and" -> x[1] * x[2]
    [] op = "nand" -> 1 - x[1] * x[2]
    [] op = "or" -> x[1] + x[2] - x[1] * x[2]
    [] op = "nor" -> 1 - (x[1] + x[2] - x[1] * x[2])
    [] op = "xor" -> (x[1] + x[2]) % 2
    [] op = "xnor" -> 1 - ((x[1] + x[2]) % 2)
    [] op = "maj" -> IF x[1] + x[2] + x[3] >= 2 THEN 1 ELSE 0
    [] op = "xor3" -> (x[1] + x[2] + x[3]) % 2

\* the value on fan-in edge i: inverted exactly when the edge is complemented
edge_value(n, g, values, i) ==
  IF node_at(n, g).children[i].complement = 1 THEN 1 - values[i] ELSE values[i]

\* C17: the scalar mode of compute returns the value of the gate on the
\* values of its fan-in edges, an edge value being the input bit, inverted
\* exactly when the edge is complemented; so an AND over two uncomplemented
\* edges yields 1 exactly when both input bits are 1.
ScalarComputeIsGateFunction ==
  (simS # no_sim /\ ctor \in Gate2Ops \cup {"maj", "xor3"}) =>
    simS.out = gate_value(ctor, [i \in DOMAIN simS.values |->
                                   edge_value(ntk, last.res.index, simS.values, i)])

\* C18: create_buf(s) returns s and create_not(s) returns s with only the
\* complement bit flipped; neither allocates a node nor changes a fan-out
\* count or anything else of the network.
BufNotAllocateNothing ==
  [][(last'.op \in {"create_buf", "create_not"}) =>
       /\ ntk' = ntk
       /\ size(ntk') = last'.size0
       /\ last'.res.index = last'.args[1].index
       /\ last'.res.complement =
            (IF last'.op = "create_buf" THEN last'.args[1].complement
             ELSE 1 - last'.args[1].complement)]_netVars

\* create_not has been applied to a primary input next to a gate
BufNotAllocateNothingWitness ==
  /\ last.op = "create_not"
  /\ is_pi(ntk, last.args[1].index)
  /\ last.res = signal(last.args[1].index, 1)
  /\ size(ntk) = 3

\* the function a signal denotes, given the value x of its node
denotes(s, x) == IF s.complement = 1 THEN 1 - x ELSE x

\* C19: for every signal s, !!s is s, with the same node index and complement
\* bit, and create_not(create_not(s)) denotes the function s denotes, while
\* create_not(s) denotes its complement.
DoubleNegation ==
  \A s \in Signals(ntk) :
    /\ signal_not(signal_not(s)) = s
    /\ signal_not(s) # s
    /\ \A x \in 0 .. 1 :
         /\ denotes(create_not(create_not(s)), x) = denotes(s, x)
         /\ denotes(create_not(s), x) = 1 - denotes(s, x)
    /\ (last.op = "create_not" /\ last.args[1] = s) => create_not(last.res) = s

\* create_not has been applied to the complemented output of a gate
DoubleNegationWitness ==
  /\ last.op = "create_not"
  /\ last.args[1].complement = 1
  /\ ~is_ci(ntk, last.args[1].index) /\ last.args[1].index > 0
  /\ last.res.complement = 0

AllocatingCalls == Gate2Ops \cup Gate3Ops \cup {"create_node", "clone_node"}

slots(cs, i) == Cardinality({k \in DOMAIN cs : cs[k].index = i})

\* C20: a constructor call that allocates appends exactly one node, raises
\* the fan-out count of every node by the number of child slots of the new
\* node that refer to it, and invokes every registered on_add observer
\* exactly once, in the order of registration, with the index of the new
\* node; create_not, create_buf and get_constant invoke no observer.
NodeAddedNotifies ==
  [][/\ (last'.op \in AllocatingCalls /\ ntk' # ntk) =>
          LET index == size(ntk)
              cs == node_at(ntk', index).children
              fs == ntk.events.on_add
          IN /\ size(ntk') = size(ntk) + 1
             /\ last'.res = signal(index, 0)
             /\ \A i \in 0 .. (size(ntk) - 1) :
                  /\ fanout_size(ntk', i) = fanout_size(ntk, i) + slots(cs, i)
                  /\ node_at(ntk', i).children = node_at(ntk, i).children
                  /\ node_at(ntk', i).lit = node_at(ntk, i).lit
             /\ fanout_size(ntk', index) = 0
             /\ ntk'.events.on_add = fs
             /\ ntk'.events.invoked =
                  ntk.events.invoked \o [k \in DOMAIN fs |-> <<fs[k], index>>]
     /\ (last'.op \in {"create_not", "create_buf", "get_constant"}) =>
          ntk'.events = ntk.events]_netVars

\* two observers have each been told of the same new gate, the first
\* registered first
NodeAddedNotifiesWitness ==
  /\ last.op \in AllocatingCalls
  /\ Len(ntk.events.on_add) = 2
  /\ Len(ntk.events.invoked) >= 2
  /\ ntk.events.invoked[Len(ntk.events.invoked) - 1] = <<1, last.res.index>>
  /\ ntk.events.invoked[Len(ntk.events.invoked)] = <<2, last.res.index>>

(***************************************************************************)
(* Properties of inputs, outputs and the growth of the storage.            *)
(***************************************************************************)

\* the nodes of n with the fan-out counts left out
structure(n) == [i \in DOMAIN n.nodes |-> node_key(n.nodes[i])]

\* C21: create_po(s) raises the fan-out count of the node of s by one and
\* leaves every other count alone, appends s, index and complement, at the
\* end of the output list, returns the number of outputs there were before
\* the call, and allocates no node.
CreatePoContract ==
  [][(last'.op = "create_po") =>
       LET f == last'.args[1]
       IN /\ \A i \in 0 .. (size(ntk) - 1) :
               fanout_size(ntk', i) =
                 fanout_size(ntk, i) + (IF i = f.index THEN 1 ELSE 0)
          /\ ntk'.outputs = Append(ntk.outputs, f)
          /\ last'.res = number(num_pos(ntk))
          /\ size(ntk') = size(ntk)
          /\ structure(ntk') = structure(ntk)
          /\ ntk'.inputs = ntk.inputs]_netVars

\* a second output, complemented, has been added on the node that drives
\* the first one
CreatePoContractWitness ==
  /\ last.op = "create_po"
  /\ last.res = number(1)
  /\ num_pos(ntk) = 2
  /\ ntk.outputs[2] = last.args[1]
  /\ ntk.outputs[2].complement = 1
  /\ ntk.outputs[1] = signal(ntk.outputs[2].index, 0)
  /\ fanout_size(ntk, ntk.outputs[2].index) >= 2

\* C22: create_pi() allocates one node at index size(), appends that index
\* at the end of the input list, so that its position there is the former
\* num_pis(), marks the node so that is_pi holds for it, and returns the
\* uncomplemented signal to it.
CreatePiContract ==
  [][(last'.op = "create_pi") =>
       LET index == size(ntk)
       IN /\ size(ntk') = index + 1
          /\ SubSeq(ntk'.nodes, 1, index) = ntk.nodes
          /\ ntk'.inputs = Append(ntk.inputs, index)
          /\ ntk'.inputs[num_pis(ntk) + 1] = index
          /\ node_at(ntk', index).lit = 1
          /\ is_pi(ntk', index)
          /\ fanout_size(ntk', index) = 0
          /\ last'.res = signal(index, 0)
          /\ ntk'.outputs = ntk.outputs]_netVars

\* a second input has been created
CreatePiContractWitness ==
  /\ last.op = "create_pi"
  /\ num_pis(ntk) = 2
  /\ last.res = signal(ntk.inputs[2], 0)
  /\ is_pi(ntk, last.res.index)

\* C23: over any construction operation size() does not decrease, and the
\* literal and the children of every node that exists stay what they were,
\* at the index they were.
AppendOnly ==
  [][/\ size(ntk') >= size(ntk)
     /\ SubSeq(structure(ntk'), 1, size(ntk)) = structure(ntk)]_netVars

\* a gate has been allocated on top of an earlier gate
AppendOnlyWitness ==
  /\ last.op \in AllocatingCalls
  /\ size(ntk) = last.size0 + 1
  /\ \E g \in 1 .. (last.size0 - 1) : ~is_ci(ntk, g)

(***************************************************************************)
(* Properties of the reader's handlers.                                    *)
(***************************************************************************)

\* the operands of the most recent handler call, after the output name
operands_of(c) == Tail(c.args)

unbound(r, o) == o.name \notin DOMAIN r.signals

\* the signal a handler is to use for operand o: the signal bound to the
\* name, constant false if there is none, complemented for a negated operand
operand_signal(r, o) ==
  LET f == IF unbound(r, o) THEN get_constant(FALSE) ELSE r.signals[o.name]
  IN IF o.neg THEN signal_not(f) ELSE f

RECURSIVE undefined_messages(_, _)
undefined_messages(r, os) ==
  IF os = <<>> THEN <<>>
  ELSE (IF unbound(r, Head(os)) THEN <<[level |-> "[w]", name |-> Head(os).name]>>
        ELSE <<>>) \o undefined_messages(r, Tail(os))

\* C24: when a gate handler or on_assign is called with an operand whose
\* name has no bound signal, it prints one "[w]" line per such operand,
\* uses the constant-false signal for it, still creates the gate (on_assign
\* creates none) and binds the output name to the result.
UndefinedOperandIsZero ==
  [][(/\ last'.op \in {"on_assign", "on_gate2"}
      /\ \E i \in DOMAIN operands_of(last') : unbound(rd, operands_of(last')[i]))
       => LET os == operands_of(last')
              lhs == last'.args[1].name
              index == size(rd.ntk)
          IN /\ rd'.stderr = rd.stderr \o undefined_messages(rd, os)
             /\ Len(rd'.stderr) > Len(rd.stderr)
             /\ lhs \in DOMAIN rd'.signals
             /\ \A i \in DOMAIN os :
                  (unbound(rd, os[i]) /\ os[i].name # lhs)
                    => rd'.signals[os[i].name] = get_constant(FALSE)
             /\ (last'.op = "on_assign") =>
                  /\ rd'.signals[lhs] = operand_signal(rd, os[1])
                  /\ rd'.ntk = rd.ntk
             /\ (last'.op = "on_gate2") =>
                  /\ size(rd'.ntk) = index + 1
                  /\ rd'.signals[lhs] = signal(index, 0)
                  /\ node_at(rd'.ntk, index).lit = gate2_literal[ctor]
                  /\ LET cs == node_at(rd'.ntk, index).children
                         a == operand_signal(rd, os[1])
                         b == operand_signal(rd, os[2])
                     IN cs = <<a, b>> \/ (variant = "primary" /\ cs = <<b, a>>)
             /\ rd'.outputs = rd.outputs]_<<rd, last>>

\* a gate has been made of two names that had no signal, the first negated:
\* two lines were printed and the gate is over constant true and constant
\* false
UndefinedOperandIsZeroWitness ==
  /\ last.op = "on_gate2"
  /\ last.args = <<plain("w"), operand("u", TRUE), plain("w")>>
  /\ rd.stderr = <<[level |-> "[w]", name |-> "u"], [level |-> "[w]", name |-> "w"]>>
  /\ size(rd.ntk) = 3
  /\ node_at(rd.ntk, 2).children \in {<<signal(0, 1), signal(0, 0)>>,
                                       <<signal(0, 0), signal(0, 1)>>}
  /\ rd.signals["w"] = signal(2, 0)
  /\ rd.signals["u"] = signal(0, 0)

ForeachFaninOrder ==
  (last.op = "foreach_fanin") =>
    LET i == last.args[1].value
        stop == last.args[2].stop
        visited == last.res.visited
        cs == node_at(ntk, i).children
    IN IF i = 0 \/ is_pi(ntk, i) THEN visited = <<>>
       ELSE /\ Len(visited) \in 1 .. Len(cs)
            /\ visited = SubSeq(cs, 1, Len(visited))
            /\ \A k \in 1 .. (Len(visited) - 1) : visited[k] \notin stop
            /\ (Len(visited) < Len(cs)) => visited[Len(visited)] \in stop

\* the callback returned true on slot 0 and false on slot 1 of a gate of
\* three children: slot 2 was not visited
ForeachFaninOrderWitness ==
  /\ last.op = "foreach_fanin"
  /\ Len(node_at(ntk, last.args[1].value).children) = 3
  /\ ~is_ci(ntk, last.args[1].value)
  /\ Len(last.res.visited) = 2
  /\ last.res.visited[1] \notin last.args[2].stop
  /\ last.res.visited[2] \in last.args[2].stop

(***************************************************************************)
(* Properties of the token level.                                          *)
(***************************************************************************)

\* C26: the lookahead queue never holds more than one token, and when it
\* holds a token the next get_token returns that token and reads nothing
\* from the tokenizer.
OneTokenPushback ==
  [][/\ Len(lx.tokens) <= 1
     /\ Len(lx'.tokens) <= 1
     /\ (last'.op = "get_token" /\ lx.tokens # <<>>) =>
          /\ lx'.token = Head(lx.tokens)
          /\ lx'.valid
          /\ lx'.tok = lx.tok
          /\ lx'.tokens = <<>>]_<<lx, last>>

\* parse_signal_name has put back the token after a name, and get_token
\* has then returned it with the tokenizer left where it was
OneTokenPushbackWitness ==
  /\ last.op = "get_token"
  /\ lx.token = "]"
  /\ lx.tokens = <<>>
  /\ Len(lx.tok) = 2
  /\ lx.valid

(***************************************************************************)
(* Properties of clone().                                                  *)
(***************************************************************************)

\* what is seen of a storage through a network object
observed(n) ==
  [ size |-> size(n), inputs |-> n.inputs, outputs |-> n.outputs,
    fanout |-> [i \in 0 .. (size(n) - 1) |-> fanout_size(n, i)],
    trav_id |-> n.trav_id ]

\* C28: a network made by clone() has a storage of its own: it starts with
\* the size, inputs, outputs, fan-out counts and traversal id of the
\* network cloned, and afterwards an operation called on one network
\* object changes none of these as seen through another.
CloneIsDeepCopy ==
  [][\A g \in DOMAIN heap.handles :
       /\ (last'.op = "clone") =>
            /\ observed(storage_of(heap', g)) = observed(storage_of(heap, g))
            /\ observed(storage_of(heap', Len(heap'.handles))) =
                 observed(storage_of(heap, last'.args[1].value))
       /\ (last'.op # "clone" /\ g # last'.args[1].value) =>
            observed(storage_of(heap', g)) = observed(storage_of(heap, g))]_<<heap, last>>

\* a network of one input was cloned; then a gate was made in the clone and
\* an output and a traversal id in the original
CloneIsDeepCopyWitness ==
  /\ Len(heap.handles) = 2
  /\ LET n1 == storage_of(heap, 1)
         n2 == storage_of(heap, 2)
     IN /\ size(n1) = 2 /\ num_pis(n1) = 1 /\ num_pos(n1) = 1 /\ n1.trav_id = 1
        /\ size(n2) = 3 /\ num_pis(n2) = 1 /\ num_pos(n2) = 0 /\ n2.trav_id = 0
        /\ fanout_size(n2, 1) = 2
        /\ fanout_size(n1, 1) = 1

(***************************************************************************)
(* Properties of the derived constructors.                                 *)
(***************************************************************************)

RECURSIVE node_value(_, _, _)
\* the value of a node under the input values env, env[k] being the value
\* of input k: a gate is computed from the values of the nodes of its
\* children as the bulk mode of compute does on vectors of one bit
node_value(n, i, env) ==
  IF is_constant(i) THEN 0
  ELSE IF is_ci(n, i) THEN env[CHOOSE k \in DOMAIN n.inputs : n.inputs[k] = i]
  ELSE LET cs == node_at(n, i).children
       IN primary_compute_tt(n, i, 1,
                             [j \in DOMAIN cs |-> node_value(n, cs[j].index, env)])

\* the value a signal denotes: that of its node, inverted if the signal is
\* complemented
denoted(n, f, env) ==
  IF f.complement = 1 THEN 1 - node_value(n, f.index, env)
  ELSE node_value(n, f.index, env)

\* the function a derived constructor is named after
named_function(op, x) ==
  CASE op = "create_lt" -> (1 - x[1]) * x[2]
    [] op = "create_le" -> 1 - x[1] * (1 - x[2])
    [] op = "create_maj" -> IF x[1] + x[2] + x[3] >= 2 THEN 1 ELSE 0
    [] op = "create_ite" -> IF x[1] = 1 THEN x[2] ELSE x[3]
    [] op = "create_xor3" -> (x[1] + x[2] + x[3]) % 2

\* C30: in primary_network create_maj, create_ite, create_xor3, create_lt
\* and create_le return a signal that denotes majority, if-then-else,
\* three-input xor, (not a) and b, and (not a) or b of what the arguments
\* denote, whatever the polarities and the node indices of the arguments.
DerivedDenoteNamedFunction ==
  (last.op \in DerivedOps) =>
    \A env \in [1 .. 3 -> 0 .. 1] :
      denoted(ntk, last.res, env) =
        named_function(last.op,
                       [k \in DOMAIN last.args |-> denoted(ntk, last.args[k], env)])

\* create_ite was called with a complemented then-branch of lower index than
\* the else-branch, on three different inputs
DerivedDenoteNamedFunctionWitness ==
  /\ last.op = "create_ite"
  /\ last.args = <<signal(3, 0), signal(1, 1), signal(2, 0)>>
  /\ size(ntk) = 7

\* the tokens the parser has still to read: those the tokenizer holds and
\* those in the lookahead queue
remaining(l) == Len(l.tok) + Len(l.tokens)

\* C29: on every finite token stream parse_modules returns, with true or
\* with false; an iteration of a loop of the parser that stays in the loop
\* has read at least one token; and the calls dispatched never outnumber the
\* statements read
ParserRunsToCompletion ==
  /\ <>(phase = "returned" /\ status \in {"true", "false"})
  /\ [][phase' = phase => remaining(lx') < remaining(lx)]_<<lx, phase>>
  /\ [](Len(sched.log) <= lx.statements)

\* the module is read to its end, and the gate that waited was dispatched
\* by the cascade of the gate after it
ParserRunsToCompletionWitness ==
  /\ phase = "returned"
  /\ status = "true"
  /\ lx.tok = <<>>
  /\ Len(sched.log) = 4
  /\ sched.log[1].payload.lhs = "w"
  /\ sched.log[2].payload.lhs = "y"

\* C32: every call the parser dispatches is of a type the gate function has
\* a branch for, so the parser never aborts on an unknown gate function
DispatcherKnowsEveryType ==
  /\ \A i \in DOMAIN sched.log : sched.log[i].payload.type \in GateFnTypes
  /\ phase # "aborted"

\* C33: every operand name a handler is given by the parser has a signal
\* bound to it, so the reader never writes that an undefined signal was
\* assigned 0
OperandsBoundAtCallback == rd.stderr = <<>>

\* the names a signal has been bound to: the constants, the declared inputs
\* and what the dispatched statements produce
bound_names ==
  Range(ConstantNames)
    \cup UNION {Range(names_of(prog[i])) : i \in {j \in 1 .. (pos - 1) : prog[j].kw = "input"}}
    \cup {sched.log[i].payload.lhs : i \in DOMAIN sched.log}

\* C34: after a parse that returns success every primary output made by
\* on_endmodule is driven by the signal bound to its name: the name is a
\* constant, a declared input or the output of a dispatched statement
OutputsAreDriven ==
  (status = "ok") =>
    /\ num_pos(rd.ntk) = Len(rd.outputs)
    /\ \A i \in DOMAIN rd.outputs : rd.outputs[i] \in bound_names

\* primary_network::num_gates: the number of entries of the structural hash
num_gates(n) == Cardinality(DOMAIN n.hash)

\* C35: in primary_network num_gates() is the number of allocated gate
\* nodes, size() - num_pis() - 1
NumGatesCountsGates ==
  (variant = "primary") => num_gates(ntk) = size(ntk) - num_pis(ntk) - 1

\* fanin_size, the same in every network class
fanin_size(n, i) == IF is_constant(i) \/ is_ci(n, i) THEN 0 ELSE 2

\* C36: fanin_size(n) is the number of children stored for n and visited
\* by foreach_fanin: 0 for the constant node and the inputs, 2 for a gate of
\* two inputs and 3 for a gate of three
FaninSizeCountsChildren ==
  \A i \in 0 .. (size(ntk) - 1) :
    /\ fanin_size(ntk, i) = Len(foreach_fanin(variant, ntk, i, {}))
    /\ ~(is_constant(i) \/ is_ci(ntk, i)) =>
         fanin_size(ntk, i) = Len(node_at(ntk, i).children)

\* C37: for every primary input n pi_index(n) is the position of n in the
\* list of inputs: pi_at(pi_index(n)) is n
PiIndexIsPosition ==
  (last.op = "pi_index") =>
    /\ last.res.value + 1 \in DOMAIN ntk.inputs
    /\ ntk.inputs[last.res.value + 1] = last.args[1].value

\* C38: no construction operation and no call of incr_fanout_size or
\* decr_fanout_size changes is_dead of a node
FanoutLeavesDeadFlag ==
  [][\A i \in 0 .. (size(ntk) - 1) : is_dead(ntk', i) = is_dead(ntk, i)]_netVars

\* C39: for each constructor of three inputs that the network classes
\* share, and all values of a, b and c, what the composition of
\* primary_network denotes is the function documented for the gate of
\* gtg_network on the same arguments in the same order
SharedGatesAgree ==
  (last.op \in SharedOps) =>
    \A env \in [1 .. 3 -> 0 .. 1] :
      denoted(ntk, last.res, env) =
        documented_gate(last.op,
                        [k \in DOMAIN last.args |-> denoted(ntk, last.args[k], env)])

\* C40: a keyword of the first loop of parse_module is handed to a
\* statement parser that accepts it: the parse does not fail at a not or
\* inv statement that has its output and its operand, and every such
\* statement read has registered one call
InvParsesLikeNot ==
  /\ (status = "failed" /\ at_statement) =>
       ~(current.kw \in {"not", "inv"} /\ Len(current.words) = 2)
  /\ Len(sched.log) + Len(sched.pending) =
       Cardinality({j \in 1 .. (pos - 1) : prog[j].kw \in {"not", "inv"}})

\* the gate nodes of a network
gates(n) == {i \in 1 .. (size(n) - 1) : ~is_ci(n, i)}

\* C31: the literal of every gate node built by a native constructor is a
\* handle of the truth-table cache of its network, and the table it stands
\* for is the one documented for the constructor
NativeLiteralInCache ==
  \A i \in gates(ntk) :
    LET lit == node_at(ntk, i).lit
    IN /\ (lit \div 2) + 1 \in DOMAIN ntk.cache
       /\ cache_lookup(ntk.cache, lit) = documented_function[ctor]

====
